---- MODULE Spec2Model ----
(***************************************************************************)
(* The asynchronous job engine of nedrexapi: submit handlers, the          *)
(* admin resubmission route, the background wait wrapper, the RQ queue     *)
(* and the worker wrappers, working on one job collection and its Redlock. *)
(*                                                                         *)
(* The job collections, their locks and their handlers are disjoint per    *)
(* job type, so a behaviour fixes one job type (jobType) in its initial    *)
(* state and follows every process that touches that collection.           *)
(***************************************************************************)
EXTENDS Integers, Sequences, FiniteSets, TLC

\* ------------------------------------------------------------------ bounds
NumClients == 2      \* request-serving threads that may be inside a handler
NumWorkers == 2      \* RQ worker processes
NumQueries == 2      \* distinct request parameter sets a client may send
MaxCalls == 3        \* handler calls (submit or resubmit) in one behaviour
MaxFaults == 1       \* processes killed or interrupted in one behaviour
MaxLen == 2          \* longest list, and longest string in tokens, given to a pure function

Clients == 1..NumClients
QueryIds == 1..NumQueries

\* ------------------------------------------------------- job types, keys
JobTypes == {"diamond", "kpm", "bicon", "graphs", "validation"}

KEEP_KEYS ==
  [validation |-> {"test_drugs", "true_drugs", "permutations", "only_approved_drugs",
                   "validation_type", "uid", "status", "module_member_type",
                   "module_members", "_id"},
   trustrank |-> {"seed_proteins", "damping_factor", "only_approved_drugs",
                  "only_direct_drugs", "N", "uid", "_id"},
   closeness |-> {"seed_proteins", "only_direct_drugs", "only_approved_drugs", "N",
                  "uid", "_id"},
   must |-> {"seeds", "seed_type", "network", "hub_penalty", "multiple", "trees",
             "maxit", "uid", "_id"},
   diamond |-> {"seeds", "seed_type", "n", "alpha", "network", "edges", "uid", "_id"},
   graphs |-> {"nodes", "edges", "ppi_evidence", "ppi_self_loops", "taxid",
               "drug_groups", "concise", "include_omim", "disgenet_threshold",
               "use_omim_ids", "split_drug_types", "uid", "_id"},
   bicon |-> {"sha256", "lg_min", "lg_max", "network", "submitted_filename",
              "filename", "uid", "_id"}]

QUERY_MAP == {<<"gene", "DEFAULT">>, <<"protein", "DEFAULT">>, <<"gene", "SHARED_DISORDER">>}

\* The network a request names: the first is compatible with gene seeds, the
\* second is not a key of QUERY_MAP for any seed type.
NetworkOf(q) == IF q = 1 THEN "DEFAULT" ELSE "STRING"

\* The canonical query a submit handler builds from request q (validation passed).
DiamondQuery(q) ==
  [seeds |-> <<ToString(q)>>, seed_type |-> "gene", n |-> 50, alpha |-> 1,
   network |-> NetworkOf(q), edges |-> "all"]

KpmQuery(q) ==
  [seeds |-> <<ToString(q)>>, seed_type |-> "gene", network |-> NetworkOf(q), k |-> 5]

BiconQuery(q) ==
  [sha256 |-> ToString(q), lg_min |-> 10, lg_max |-> 15, network |-> NetworkOf(q)]

GraphQuery(q) ==
  [nodes |-> <<"disorder", "drug", "gene", "protein">>,
   edges |-> <<"drug_has_target">>, ppi_evidence |-> <<"exp">>,
   ppi_self_loops |-> FALSE, taxid |-> <<9606>>, drug_groups |-> <<"approved">>,
   concise |-> TRUE, include_omim |-> TRUE, disgenet_threshold |-> q,
   use_omim_ids |-> FALSE, split_drug_types |-> FALSE,
   reviewed_proteins |-> <<TRUE, FALSE>>]

JointValidationRecord(q) ==
  [test_drugs |-> <<"DB" \o ToString(q)>>, true_drugs |-> <<"DB00001">>,
   module_member_type |-> IF q = 1 THEN "gene" ELSE "protein",
   module_members |-> <<"1">>, permutations |-> 1000,
   only_approved_drugs |-> TRUE, validation_type |-> "joint"]

CanonicalQuery(jt, q) ==
  CASE jt = "diamond" -> DiamondQuery(q)
    [] jt = "kpm" -> KpmQuery(q)
    [] jt = "bicon" -> BiconQuery(q)
    [] jt = "graphs" -> GraphQuery(q)
    [] jt = "validation" -> JointValidationRecord(q)

\* The type tag a handler passes to queue_and_wait_for_job.
SubmitTag(jt) ==
  CASE jt = "graphs" -> "graph"
    [] jt = "validation" -> "validation-joint"
    [] OTHER -> jt

\* ------------------------------------------- strings, lists and sorting
\* A string is a sequence of tokens, none of which is a prefix of another, so
\* that startswith, replace and the lexicographic order act on tokens.
Tokens == {"1", "2", "ENTREZ.", "entrez.", "UNIPROT.", "uniprot.", "P", "p"}

\* str.upper on one token
UpperToken(tok) ==
  CASE tok = "entrez." -> "ENTREZ."
    [] tok = "uniprot." -> "UNIPROT."
    [] tok = "p" -> "P"
    [] OTHER -> tok

upper(str) == [i \in 1..Len(str) |-> UpperToken(str[i])]

startswith(str, prefix) == Len(str) >= 1 /\ str[1] = prefix

isnumeric(str) == Len(str) >= 1 /\ \A i \in 1..Len(str) : str[i] \in {"1", "2"}

\* str.replace(old, ""): every occurrence is removed
replace(str, old) ==
  LET Keep(tok) == tok # old
  IN SelectSeq(str, Keep)

\* the position of a token's first character in the code point order
TokenRank ==
  ("1" :> 1) @@ ("2" :> 2) @@ ("DB1" :> 3) @@ ("DB2" :> 4) @@ ("ENTREZ." :> 5) @@
  ("P" :> 6) @@ ("UNIPROT." :> 7) @@ ("drugbank." :> 8) @@ ("entrez." :> 9) @@
  ("p" :> 10) @@ ("uniprot." :> 11)

\* str < str of Python: lexicographic, a proper prefix first
StrLess(a, b) ==
  \E k \in 1..(Len(a) + 1) :
    /\ k <= Len(b)
    /\ \A j \in 1..(k - 1) : a[j] = b[j]
    /\ k = Len(a) + 1 \/ TokenRank[a[k]] < TokenRank[b[k]]

\* sorted(list): ascending, duplicates kept
RECURSIVE sorted(_)
sorted(list) ==
  IF list = <<>> THEN <<>>
  ELSE LET rest == sorted(Tail(list))
           n == Cardinality({i \in 1..Len(rest) : StrLess(rest[i], Head(list))})
       IN SubSeq(rest, 1, n) \o <<Head(list)>> \o SubSeq(rest, n + 1, Len(rest))

\* the elements of a list
Elements(list) == {list[i] : i \in 1..Len(list)}

\* list(set(list)) up to order: the distinct elements of a list
RECURSIVE distinct(_)
distinct(list) ==
  IF list = <<>> THEN <<>>
  ELSE IF Head(list) \in Elements(Tail(list)) THEN distinct(Tail(list))
       ELSE <<Head(list)>> \o distinct(Tail(list))

\* a seed that looks like a gene identifier: numeric, or with the ENTREZ. prefix
GeneLike(str) == isnumeric(str) \/ startswith(str, "ENTREZ.")

\* (mutant) seeds that share no namespace are classified by majority
normalise_seeds_by_majority(seeds) ==
  LET new_seeds == [i \in 1..Len(seeds) |-> upper(seeds[i])]
      all_entrez == \A i \in 1..Len(seeds) : startswith(new_seeds[i], "ENTREZ.")
      all_numeric == \A i \in 1..Len(seeds) : isnumeric(new_seeds[i])
      all_uniprot == \A i \in 1..Len(seeds) : startswith(new_seeds[i], "UNIPROT.")
      genes == Cardinality({i \in 1..Len(seeds) : GeneLike(new_seeds[i])})
  IN IF all_entrez
     THEN [seeds |-> [i \in 1..Len(seeds) |-> replace(new_seeds[i], "ENTREZ.")],
           seed_type |-> "gene"]
     ELSE IF all_numeric
     THEN [seeds |-> new_seeds, seed_type |-> "gene"]
     ELSE IF all_uniprot
     THEN [seeds |-> [i \in 1..Len(seeds) |-> replace(new_seeds[i], "UNIPROT.")],
           seed_type |-> "protein"]
     ELSE [seeds |-> new_seeds,
           seed_type |-> IF 2 * genes > Len(seeds) THEN "gene" ELSE "protein"]

\* networks.normalise_seeds_and_determine_type
normalise_seeds_and_determine_type(seeds) ==
  LET new_seeds == [i \in 1..Len(seeds) |-> upper(seeds[i])]
      all_entrez == \A i \in 1..Len(seeds) : startswith(new_seeds[i], "ENTREZ.")
      all_numeric == \A i \in 1..Len(seeds) : isnumeric(new_seeds[i])
      all_uniprot == \A i \in 1..Len(seeds) : startswith(new_seeds[i], "UNIPROT.")
  IN IF all_entrez
     THEN [seeds |-> [i \in 1..Len(seeds) |-> replace(new_seeds[i], "ENTREZ.")],
           seed_type |-> "gene"]
     ELSE IF all_numeric
     THEN [seeds |-> new_seeds, seed_type |-> "gene"]
     ELSE IF all_uniprot
     THEN [seeds |-> [i \in 1..Len(seeds) |-> replace(new_seeds[i], "UNIPROT.")],
           seed_type |-> "protein"]
     ELSE [seeds |-> new_seeds, seed_type |-> "protein"]

\* validation.standardize_list: the prefix is put in front where it is missing
standardize_list(lst, prefix) ==
  [i \in 1..Len(lst) |-> IF startswith(lst[i], prefix) THEN lst[i] ELSE <<prefix>> \o lst[i]]

\* An optional request field: <<>> when omitted (None), <<v>> when given as v.
OrDefault(opt, default) == IF opt = <<>> THEN default ELSE opt[1]

DEFAULT_NODE_COLLECTIONS == <<"disorder", "drug", "gene", "protein">>

DEFAULT_EDGE_COLLECTIONS ==
  <<"disorder_is_subtype_of_disorder", "drug_has_indication", "drug_has_target",
    "gene_associated_with_disorder", "protein_encoded_by_gene",
    "protein_interacts_with_protein">>

\* diamond_submit: the query built from a request that passed the checks
diamond_query(dr) ==
  LET norm == normalise_seeds_and_determine_type(dr.seeds)
  IN [seeds |-> sorted(norm.seeds), seed_type |-> norm.seed_type, n |-> dr.n,
      alpha |-> OrDefault(dr.alpha, 1), network |-> OrDefault(dr.network, "DEFAULT"),
      edges |-> OrDefault(dr.edges, "all")]

\* kpm_submit: the query built from a request that passed the checks
kpm_query(kr) ==
  LET norm == normalise_seeds_and_determine_type(kr.seeds)
  IN [seeds |-> sorted(norm.seeds), seed_type |-> norm.seed_type,
      network |-> IF kr.network = <<>> \/ kr.network = <<"">> THEN "DEFAULT"
                  ELSE kr.network[1],
      k |-> kr.k]

\* robust_submit: the query built from a request that passed the checks; the
\* fractions are counted in hundredths
robust_query(rr) ==
  LET norm == normalise_seeds_and_determine_type(rr.seeds)
  IN [seeds |-> sorted(norm.seeds), seed_type |-> norm.seed_type,
      network |-> OrDefault(rr.network, "DEFAULT"),
      initial_fraction |-> OrDefault(rr.initial_fraction, 25),
      reduction_factor |-> OrDefault(rr.reduction_factor, 90),
      num_trees |-> OrDefault(rr.num_trees, 30),
      threshold |-> OrDefault(rr.threshold, 10)]

\* the default of edges as the description of BuildRequest.edges prints it
DocumentedEdges ==
  <<"disorder_is_subtype_of_disorder", "drug_has_indication", "drug_has_target",
    "gene_associated_with_disorder", "protein_encoded_by",
    "protein_interacts_with_protein">>

\* EDGE_COLLECTIONS comes from the deployment's configuration: it holds the
\* default collections, and "protein_encoded_by" when extra is TRUE
EDGE_COLLECTIONS(extra) ==
  Elements(DEFAULT_EDGE_COLLECTIONS) \cup (IF extra THEN {"protein_encoded_by"} ELSE {})

\* the HTTPException(422) of graph.check_values
Invalid == [status_code |-> 422]

\* graph_builder: check_values on edges, then query = dict(build_request) after
\* the defaults are filled in
graph_query(br, extra) ==
  IF ~(Elements(OrDefault(br.edges, DEFAULT_EDGE_COLLECTIONS)) \subseteq EDGE_COLLECTIONS(extra))
  THEN Invalid
  ELSE
  [nodes |-> OrDefault(br.nodes, DEFAULT_NODE_COLLECTIONS),
   edges |-> OrDefault(br.edges, DEFAULT_EDGE_COLLECTIONS),
   ppi_evidence |-> OrDefault(br.ppi_evidence, <<"exp">>),
   ppi_self_loops |-> FALSE, taxid |-> <<9606>>, drug_groups |-> <<"approved">>,
   reviewed_proteins |-> <<TRUE, FALSE>>, include_omim |-> TRUE,
   disgenet_threshold |-> 0, concise |-> OrDefault(br.concise, TRUE),
   use_omim_ids |-> FALSE, split_drug_types |-> FALSE]

\* joint_validation_submit: the record built from a request that passed the checks
joint_record(jvr) ==
  [test_drugs |-> sorted(distinct(standardize_list(jvr.test_drugs, "drugbank."))),
   true_drugs |-> sorted(distinct(standardize_list(jvr.true_drugs, "drugbank."))),
   module_member_type |-> jvr.module_member_type,
   module_members |->
     sorted(distinct(standardize_list(jvr.module_members,
                                 IF jvr.module_member_type = "gene"
                                 THEN "entrez." ELSE "uniprot."))),
   permutations |-> jvr.permutations,
   only_approved_drugs |-> jvr.only_approved_drugs,
   validation_type |-> "joint"]

\* the job types whose query builders are applied to raw requests
CanonTypes == {"diamond", "kpm", "robust", "graphs", "validation"}

BuildQuery(jt, r, extra) ==
  CASE jt = "diamond" -> diamond_query(r)
    [] jt = "kpm" -> kpm_query(r)
    [] jt = "robust" -> robust_query(r)
    [] jt = "graphs" -> graph_query(r, extra)
    [] jt = "validation" -> joint_record(r)

\* --- inputs of the canonicalising functions
\* the lists of one to MaxLen elements of S
ListsOf(S) == UNION {[1..n -> S] : n \in 1..MaxLen}

Seeds == ListsOf(Tokens)

SeedLists == ListsOf(Seeds)

RawSeedLists == ListsOf({<<"1">>, <<"2">>, <<"p">>})

RawDrugLists == ListsOf({<<"DB1">>, <<"drugbank.", "DB1">>, <<"DB2">>})

RawRequests(jt) ==
  CASE jt = "diamond" ->
         [seeds : RawSeedLists, n : {50}, alpha : {<<>>, <<1>>, <<2>>},
          network : {<<>>, <<"DEFAULT">>}, edges : {<<>>, <<"all">>, <<"limited">>}]
    [] jt = "kpm" ->
         [seeds : RawSeedLists, k : {5},
          network : {<<>>, <<"DEFAULT">>, <<"SHARED_DISORDER">>}]
    [] jt = "robust" ->
         [seeds : {<<<<"1">>>>, <<<<"2">>, <<"1">>>>}, network : {<<>>, <<"DEFAULT">>},
          initial_fraction : {<<>>, <<25>>}, reduction_factor : {<<>>, <<90>>},
          num_trees : {<<>>, <<30>>, <<10>>}, threshold : {<<>>, <<10>>}]
    [] jt = "graphs" ->
         [nodes : {<<>>, <<DEFAULT_NODE_COLLECTIONS>>, <<<<"gene", "drug">>>>,
                   <<<<"drug", "gene">>>>},
          edges : {<<>>, <<DEFAULT_EDGE_COLLECTIONS>>, <<DocumentedEdges>>},
          ppi_evidence : {<<>>, <<<<"exp">>>>, <<<<"exp", "exp">>>>},
          concise : {<<>>, <<TRUE>>, <<FALSE>>}]
    [] jt = "validation" ->
         [test_drugs : RawDrugLists, true_drugs : {<<<<"DB2">>>>},
          module_members : {<<<<"1">>>>, <<<<"entrez.", "1">>, <<"1">>>>},
          module_member_type : {"gene"}, permutations : {1000},
          only_approved_drugs : {<<>>, <<TRUE>>}]

\* ------------------------------------------------------------------ state
VARIABLES
  jobType,   \* the job type whose collection this behaviour follows
  coll,      \* the job collection: documents in insertion order
  lock,      \* the collection's Redlock: Free or its holder
  nextUid,   \* uuid4: the next fresh identifier
  clients,   \* per request thread: position and locals of the handler it runs
  tasks,     \* background tasks: wait wrapper, queue job and worker of each
  returns,   \* values handed back by finished handler calls
  ncalls,    \* handler calls started so far
  queue,     \* the RQ queue: enqueued task ids, oldest first
  files,     \* uids whose result artifact exists in the job type's data directory
  api_keys,  \* the API key collection
  pure,      \* the last application of a request-canonicalising function
  faults,    \* how many processes were killed or interrupted from outside
  locks,     \* every Redlock of common.py by its key: Free or its holder
  STATUS,    \* the shared dictionary static-file-status
  jobs       \* per process: the job or handler it runs and its position in it

vars == <<jobType, coll, lock, nextUid, clients, tasks, returns, ncalls, queue, files,
          api_keys, pure, faults, locks, STATUS, jobs>>

\* the state of the locks of all job types and of the static files
statics == <<locks, STATUS, jobs>>

Free == <<>>
Client(c) == <<"client", c>>
Task(t) == <<"task", t>>

NoDoc == [k \in {} |-> 0]
IsNone(doc) == DOMAIN doc = {}

\* a uid that uuid4 has not handed out, so that no record carries it
UnknownUid == nextUid

\* ---------------------------------------------------------- the document store
Matches(doc, filter) == \A k \in DOMAIN filter : k \in DOMAIN doc /\ doc[k] = filter[k]

Matching(filter) == {i \in 1..Len(coll) : Matches(coll[i], filter)}

First(S) == CHOOSE i \in S : \A j \in S : i <= j

find_one(filter) ==
  IF Matching(filter) = {} THEN NoDoc ELSE coll[First(Matching(filter))]

insert_one(doc) == Append(coll, doc @@ ("_id" :> Len(coll) + 1))

\* (mutant) the update lands on the first document of the collection
update_oneUnfiltered(filter, set) ==
  IF coll = <<>> THEN coll
  ELSE [coll EXCEPT ![1] = set @@ @]

update_one(filter, set) ==
  IF Matching(filter) = {} THEN coll
  ELSE [coll EXCEPT ![First(Matching(filter))] = set @@ @]

\* (mutant) the matched document is removed instead of replaced
replace_oneDeletes(filter, doc) ==
  IF Matching(filter) = {} THEN coll
  ELSE [j \in 1..(Len(coll) - 1) |->
          IF j < First(Matching(filter)) THEN coll[j] ELSE coll[j + 1]]

replace_one(filter, doc) ==
  IF Matching(filter) = {} THEN coll
  ELSE [coll EXCEPT ![First(Matching(filter))] = doc]

ByUid(uid) == ("uid" :> uid)

\* ------------------------------------------------------------------- locks
\* (mutant) the lock excludes nobody
AcquirableByAnyone == TRUE

\* Redlock acquire succeeds only while nobody holds the key
Acquirable == lock = Free

\* ---------------------------------------------------------------- uuid4
\* (mutant) the generator hands out its previous value again
uuid4Repeats == IF nextUid > 1 THEN nextUid - 1 ELSE nextUid

\* a fresh identifier on every call
uuid4 == nextUid

\* ------------------------------------------------------------------ tasks
NewTask(tag, uid, c, origin) ==
  [tag |-> tag, uid |-> uid, by |-> c, origin |-> origin, wait |-> "added",
   rq |-> "none", pc |-> "none", details |-> NoDoc, res |-> "none"]

\* what a finished handler call handed back: the HTTP status code and the body
\* (the uid of submit and resubmit is kept in its own field)
Response(op, q, uid, code, body) ==
  [op |-> op, q |-> q, uid |-> uid, code |-> code, body |-> body]

IdleClient == [pc |-> "idle", op |-> "none", q |-> 0, uid |-> 0, doc |-> NoDoc]

\* no canonicalising function has been applied
NoCall == [fn |-> "none"]

\* the processes that run jobs and handlers of several job types side by side
Workers == 1..NumWorkers
Job(w) == <<"job", w>>

\* what a process runs: a closeness, validation or DIAMOnD job, or diamond_submit
Kinds == {"closeness", "validation", "diamond", "submit"}

\* the keys of the Redlocks these processes use
LockKeys ==
  {"closeness_collection_lock", "validation_collection_lock", "diamond_collection_lock",
   "network_generation_lock", "static-ranking-lock", "static-validation-lock"}

\* the keys of _STATUS
Flags == {"static-ranking", "static-validation"}

IdleJob == [kind |-> "none", pc |-> "idle"]

Init ==
  /\ jobType \in JobTypes
  /\ coll = <<>>
  /\ lock = Free
  /\ nextUid = 1
  /\ clients = [c \in Clients |-> IdleClient]
  /\ tasks = <<>>
  /\ returns = {}
  /\ ncalls = 0
  /\ queue = <<>>
  /\ files = {}
  /\ api_keys = {[key |-> "live", expired |-> FALSE], [key |-> "old", expired |-> TRUE]}
  /\ pure = NoCall
  /\ faults = 0
  /\ locks = [key \in LockKeys |-> Free]
  /\ STATUS = [flag \in Flags |-> "None"]
  /\ jobs = [w \in Workers |-> IdleJob]

\* ------------------------------------------- the canonicalising functions
\* normalise_seeds_and_determine_type is applied to a list of seeds
Normalise(seeds) ==
  /\ pure = NoCall
  /\ pure' = [fn |-> "normalise", a |-> seeds,
              ra |-> normalise_seeds_and_determine_type(seeds)]
  /\ UNCHANGED <<statics, jobType, coll, lock, nextUid, clients, tasks, returns, ncalls, queue,
                 files, api_keys, faults>>

\* the submit handler of job type jt builds the queries of two requests
BuildQueries(jt, extra, r1, r2) ==
  /\ pure = NoCall
  /\ pure' = [fn |-> "query", jt |-> jt, a |-> r1, b |-> r2,
              ra |-> BuildQuery(jt, r1, extra), rb |-> BuildQuery(jt, r2, extra)]
  /\ UNCHANGED <<statics, jobType, coll, lock, nextUid, clients, tasks, returns, ncalls, queue,
                 files, api_keys, faults>>

CanonNext ==
  \/ pure = NoCall /\ \E seeds \in SeedLists : Normalise(seeds)
  \/ pure = NoCall /\ \E jt \in CanonTypes, extra \in BOOLEAN :
                        \E r1, r2 \in RawRequests(jt) : BuildQueries(jt, extra, r1, r2)

\* ------------------------------------------------------- submit handlers
\* (mutant) the lookup runs without entering the with block
SubmitLookupWithoutLock(c, q) ==
  /\ jobType # "bicon"
  /\ clients[c].pc = "idle"
  /\ ncalls < MaxCalls
  /\ clients' = [clients EXCEPT ![c] =
                   [pc |-> "submit_locked", op |-> "submit", q |-> q, uid |-> 0,
                    doc |-> find_one(CanonicalQuery(jobType, q))]]
  /\ ncalls' = ncalls + 1
  /\ UNCHANGED <<statics, faults, pure, files, api_keys, jobType, coll, lock, nextUid, tasks, returns, queue>>

\* with LOCK: result = COLL.find_one(query)
SubmitLookup(c, q) ==
  /\ jobType # "bicon"
  /\ clients[c].pc = "idle"
  /\ ncalls < MaxCalls
  /\ Acquirable
  /\ lock' = Client(c)
  /\ clients' = [clients EXCEPT ![c] =
                   [pc |-> "submit_locked", op |-> "submit", q |-> q, uid |-> 0,
                    doc |-> find_one(CanonicalQuery(jobType, q))]]
  /\ ncalls' = ncalls + 1
  /\ UNCHANGED <<statics, faults, pure, files, api_keys, jobType, coll, nextUid, tasks, returns, queue>>

\* (mutant) the task is added on the dedup path as well
SubmitFoundEnqueues(c) ==
  /\ clients[c].pc = "submit_locked"
  /\ ~IsNone(clients[c].doc)
  /\ clients' = [clients EXCEPT ![c].pc = "return", ![c].uid = clients[c].doc["uid"]]
  /\ tasks' = Append(tasks, NewTask(SubmitTag(jobType), clients[c].doc["uid"], c, "submit"))
  /\ lock' = Free
  /\ UNCHANGED <<statics, faults, pure, files, api_keys, jobType, coll, nextUid, returns, ncalls, queue>>

\* if result: uid = result["uid"]; the with block ends
SubmitFound(c) ==
  /\ clients[c].pc = "submit_locked"
  /\ ~IsNone(clients[c].doc)
  /\ clients' = [clients EXCEPT ![c].pc = "return", ![c].uid = clients[c].doc["uid"]]
  /\ lock' = Free
  /\ UNCHANGED <<statics, faults, pure, files, api_keys, jobType, coll, nextUid, tasks, returns, ncalls, queue>>

\* else: new uid, insert_one, add_task; the with block ends
SubmitInsert(c) ==
  /\ clients[c].pc = "submit_locked"
  /\ IsNone(clients[c].doc)
  /\ LET uid == uuid4
         query == CanonicalQuery(jobType, clients[c].q)
     IN /\ coll' = insert_one(query @@ [uid |-> uid, status |-> "submitted"])
        /\ tasks' = Append(tasks, NewTask(SubmitTag(jobType), uid, c, "submit"))
        /\ clients' = [clients EXCEPT ![c].pc = "return", ![c].uid = uid]
  /\ nextUid' = nextUid + 1
  /\ lock' = Free
  /\ UNCHANGED <<statics, faults, pure, files, api_keys, jobType, returns, ncalls, queue>>

\* return uid: the response is sent, then the request's background tasks run
Return(c) ==
  /\ clients[c].pc = "return"
  /\ returns' = returns \cup {Response(clients[c].op, clients[c].q, clients[c].uid, 200, NoDoc)}
  /\ tasks' = [t \in 1..Len(tasks) |->
                 IF tasks[t].by = c THEN [tasks[t] EXCEPT !.by = 0] ELSE tasks[t]]
  /\ clients' = [clients EXCEPT ![c] = IdleClient]
  /\ UNCHANGED <<statics, faults, pure, files, api_keys, jobType, coll, lock, nextUid, ncalls, queue>>

\* ------------------------------------------------------- bicon_submit
\* uid = uuid4(); ...; with _BICON_COLL_LOCK: existing = _BICON_COLL.find_one(query)
BiconLookup(c, q) ==
  /\ jobType = "bicon"
  /\ clients[c].pc = "idle"
  /\ ncalls < MaxCalls
  /\ Acquirable
  /\ lock' = Client(c)
  /\ clients' = [clients EXCEPT ![c] =
                   [pc |-> "bicon_locked", op |-> "submit", q |-> q, uid |-> uuid4,
                    doc |-> find_one(BiconQuery(q))]]
  /\ nextUid' = nextUid + 1
  /\ ncalls' = ncalls + 1
  /\ UNCHANGED <<statics, faults, pure, files, api_keys, jobType, coll, tasks, returns, queue>>

\* the with block ends; if existing: return existing["uid"]
BiconChecked(c) ==
  /\ clients[c].pc = "bicon_locked"
  /\ lock' = Free
  /\ clients' = IF IsNone(clients[c].doc)
                THEN [clients EXCEPT ![c].pc = "bicon_upload"]
                ELSE [clients EXCEPT ![c].pc = "return", ![c].uid = clients[c].doc["uid"]]
  /\ UNCHANGED <<statics, faults, pure, files, api_keys, jobType, coll, nextUid, tasks, returns, ncalls, queue>>

\* the upload is written to its directory; with _BICON_COLL_LOCK:
BiconInsertLock(c) ==
  /\ clients[c].pc = "bicon_upload"
  /\ Acquirable
  /\ lock' = Client(c)
  /\ clients' = [clients EXCEPT ![c].pc = "bicon_insert"]
  /\ UNCHANGED <<statics, faults, pure, files, api_keys, jobType, coll, nextUid, tasks, returns, ncalls, queue>>

\* _BICON_COLL.insert_one(query); the with block ends; add_task
BiconInsert(c) ==
  /\ clients[c].pc = "bicon_insert"
  /\ LET uid == clients[c].uid
         query == BiconQuery(clients[c].q) @@
                  [submitted_filename |-> "expression", filename |-> uid,
                   uid |-> uid, status |-> "submitted"]
     IN /\ coll' = insert_one(query)
        /\ tasks' = Append(tasks, NewTask("bicon", uid, c, "submit"))
  /\ lock' = Free
  /\ clients' = [clients EXCEPT ![c].pc = "return"]
  /\ UNCHANGED <<statics, faults, pure, files, api_keys, jobType, nextUid, returns, ncalls, queue>>

\* ------------------------------------------------------- resubmit_job
Uids == {coll[i]["uid"] : i \in 1..Len(coll)}

\* (mutant) the document is not filtered
ScrubKeepsAll(doc, jt) == [status |-> "submitted"] @@ doc

\* doc = {k: v for k, v in doc.items() if k in KEEP_KEYS[job_type]}; doc["status"] = "submitted"
Scrub(doc, jt) ==
  [status |-> "submitted"] @@ [k \in DOMAIN doc \cap KEEP_KEYS[jt] |-> doc[k]]

\* the if/elif chain that picks the type tag of the re-enqueued task
ResubmitTag(jt, doc) ==
  CASE jt \in {"bicon", "closeness", "diamond", "trustrank", "must"} -> jt
    [] jt = "graphs" -> "graph"
    [] jt = "validation" /\ doc["validation_type"] \in {"module", "drug", "joint"} ->
         "validation-" \o doc["validation_type"]
    [] OTHER -> "none"

\* coll.find_one({"uid": uid}) and the filtering succeed
ResubmitFind(c, uid) ==
  /\ clients[c].pc = "idle"
  /\ ncalls < MaxCalls
  /\ ~IsNone(find_one(ByUid(uid)))
  /\ jobType \in DOMAIN KEEP_KEYS
  /\ clients' = [clients EXCEPT ![c] =
                   [pc |-> "resubmit_replace", op |-> "resubmit", q |-> 0, uid |-> uid,
                    doc |-> Scrub(find_one(ByUid(uid)), jobType)]]
  /\ ncalls' = ncalls + 1
  /\ UNCHANGED <<statics, faults, pure, files, api_keys, jobType, coll, lock, nextUid, tasks, returns, queue>>

\* (mutant) the background task is added before the document is filtered
ResubmitRaisesAfterAdd(c, uid) ==
  /\ clients[c].pc = "idle"
  /\ ncalls < MaxCalls
  /\ IsNone(find_one(ByUid(uid))) \/ jobType \notin DOMAIN KEEP_KEYS
  /\ returns' = returns \cup {Response("resubmit_error", 0, uid, 500, NoDoc)}
  /\ tasks' = Append(tasks, NewTask(SubmitTag(jobType), uid, 0, "resubmit"))
  /\ ncalls' = ncalls + 1
  /\ UNCHANGED <<statics, faults, pure, files, api_keys, jobType, coll, lock, nextUid, clients, queue>>

\* doc is None (doc.items() raises) or KEEP_KEYS has no entry for the job type
\* (KeyError): the handler ends in an unhandled exception before any write
ResubmitRaises(c, uid) ==
  /\ clients[c].pc = "idle"
  /\ ncalls < MaxCalls
  /\ IsNone(find_one(ByUid(uid))) \/ jobType \notin DOMAIN KEEP_KEYS
  /\ returns' = returns \cup {Response("resubmit_error", 0, uid, 500, NoDoc)}
  /\ ncalls' = ncalls + 1
  /\ UNCHANGED <<statics, faults, pure, files, api_keys, jobType, coll, lock, nextUid, clients, tasks, queue>>

\* coll.replace_one({"uid": uid}, doc); background_tasks.add_task(...)
ResubmitReplace(c) ==
  /\ clients[c].pc = "resubmit_replace"
  /\ coll' = replace_one(ByUid(clients[c].uid), clients[c].doc)
  /\ LET tag == ResubmitTag(jobType, clients[c].doc)
     IN tasks' = IF tag = "none" THEN tasks
                 ELSE Append(tasks, NewTask(tag, clients[c].uid, c, "resubmit"))
  /\ clients' = [clients EXCEPT ![c].pc = "return"]
  /\ UNCHANGED <<statics, faults, pure, files, api_keys, jobType, lock, nextUid, returns, ncalls, queue>>

\* ------------------------------------------------- request validation
\* Requests as they arrive, before the handler's checks (an empty list or a 0
\* stands for a field that is missing or empty); one of each set passes.
DiamondRequests ==
  {[seeds |-> <<"1">>, n |-> 50, edges |-> "all"],
   [seeds |-> <<>>, n |-> 50, edges |-> "all"],
   [seeds |-> <<"1">>, n |-> 0, edges |-> "all"],
   [seeds |-> <<"1">>, n |-> 50, edges |-> "some"]}

KpmRequests ==
  {[seeds |-> <<"1">>, k |-> 5], [seeds |-> <<>>, k |-> 5], [seeds |-> <<"1">>, k |-> 0]}

JointValidationRequests ==
  {[test_drugs |-> <<"DB1">>, true_drugs |-> <<"DB2">>, permutations |-> p,
    module_members |-> <<"1">>, module_member_type |-> m] :
     p \in {500, 1000}, m \in {"gene", "tissue"}}
  \cup {[test_drugs |-> <<>>, true_drugs |-> <<"DB2">>, permutations |-> 1000,
         module_members |-> <<"1">>, module_member_type |-> "gene"],
        [test_drugs |-> <<"DB1">>, true_drugs |-> <<"DB2">>, permutations |-> 1000,
         module_members |-> <<>>, module_member_type |-> "gene"]}

BuildRequests ==
  {[ppi_evidence |-> e, drug_groups |-> g] :
     e \in {<<"exp">>, <<"exp", "lit">>}, g \in {<<"approved">>, <<"legal">>}}

BiconRequests == {[expression_file |-> TRUE], [expression_file |-> FALSE]}

Requests(jt) ==
  CASE jt = "diamond" -> DiamondRequests
    [] jt = "kpm" -> KpmRequests
    [] jt = "validation" -> JointValidationRequests
    [] jt = "graphs" -> BuildRequests
    [] jt = "bicon" -> BiconRequests

\* check_values: some supplied value is not a valid one
check_values(supplied, valid) == \E i \in 1..Len(supplied) : supplied[i] \notin valid

\* The status code of the HTTPException the handler's checks raise, in the
\* order of the checks; 0 when the request passes all of them.
SubmitError(jt, r) ==
  CASE jt = "diamond" ->
         IF r.seeds = <<>> THEN 400
         ELSE IF r.n = 0 THEN 400
         ELSE IF r.edges \notin {"all", "limited"} THEN 422
         ELSE 0
    [] jt = "kpm" ->
         IF r.seeds = <<>> THEN 400
         ELSE IF r.k = 0 THEN 400
         ELSE 0
    [] jt = "validation" ->
         IF r.test_drugs = <<>> THEN 400
         ELSE IF r.true_drugs = <<>> THEN 400
         ELSE IF ~(1000 <= r.permutations /\ r.permutations <= 10000) THEN 422
         ELSE IF r.module_members = <<>> THEN 400
         ELSE IF r.module_member_type \notin {"gene", "protein"} THEN 422
         ELSE 0
    [] jt = "graphs" ->
         IF check_values(r.ppi_evidence, {"exp", "ortho", "pred"}) THEN 422
         ELSE IF check_values(r.drug_groups,
                              {"approved", "experimental", "illicit", "investigational",
                               "nutraceutical", "vet_approved", "withdrawn"}) THEN 422
         ELSE 0
    [] jt = "bicon" -> IF ~r.expression_file THEN 422 ELSE 0

\* (mutant) the checks run inside the with block and the raise leaves the key set
SubmitRejectedInsideLock(c, r) ==
  /\ clients[c].pc = "idle"
  /\ ncalls < MaxCalls
  /\ SubmitError(jobType, r) # 0
  /\ Acquirable
  /\ lock' = Client(c)
  /\ returns' = returns \cup {Response("rejected", 0, 0, SubmitError(jobType, r), NoDoc)}
  /\ ncalls' = ncalls + 1
  /\ UNCHANGED <<statics, faults, pure, files, api_keys, jobType, coll, nextUid, clients, tasks, queue>>

\* a check fails: raise HTTPException(...) before the with block is reached
SubmitRejected(c, r) ==
  /\ clients[c].pc = "idle"
  /\ ncalls < MaxCalls
  /\ SubmitError(jobType, r) # 0
  /\ returns' = returns \cup {Response("rejected", 0, 0, SubmitError(jobType, r), NoDoc)}
  /\ ncalls' = ncalls + 1
  /\ UNCHANGED <<statics, faults, pure, files, api_keys, jobType, coll, lock, nextUid, clients, tasks, queue>>

\* ------------------------------------------------- status and download
\* (mutant) the storage identifier stays in the body
pop_idKeeps(doc) == doc

\* result.pop("_id")
pop_id(doc) == [k \in DOMAIN doc \ {"_id"} |-> doc[k]]

\* the status routes that raise 404 for an unknown uid (the others return {})
StatusRaises == {"graphs"}

\* result = COLL.find_one({"uid": uid}); the record without _id, or {} / 404
Status(c, uid) ==
  /\ clients[c].pc = "idle"
  /\ ncalls < MaxCalls
  /\ LET result == find_one(ByUid(uid))
         code == IF IsNone(result) /\ jobType \in StatusRaises THEN 404 ELSE 200
         body == IF IsNone(result) THEN NoDoc ELSE pop_id(result)
     IN returns' = returns \cup {Response("status", 0, uid, code, body)}
  /\ ncalls' = ncalls + 1
  /\ UNCHANGED <<statics, faults, pure, files, api_keys, jobType, coll, lock, nextUid, clients, tasks, queue>>

\* the job types with a download route modelled here
Downloadable == {"diamond", "bicon", "graphs"}

\* the file is opened and read: its content, or an unhandled FileNotFoundError
ReadArtifact(uid) ==
  IF uid \in files THEN [code |-> 200, body |-> ("artifact" :> uid)]
  ELSE [code |-> 500, body |-> NoDoc]

\* the branches of the download routes on the record found
DownloadResult(jt, uid, result) ==
  IF jt = "graphs"
  THEN CASE ~IsNone(result) /\ result["status"] = "completed" -> ReadArtifact(uid)
         [] ~IsNone(result) /\ result["status"] = "running" -> [code |-> 102, body |-> NoDoc]
         [] ~IsNone(result) /\ result["status"] = "failed" -> [code |-> 404, body |-> NoDoc]
         [] IsNone(result) -> [code |-> 404, body |-> NoDoc]
         [] OTHER -> [code |-> 200, body |-> NoDoc]
  ELSE CASE IsNone(result) -> [code |-> 404, body |-> NoDoc]
         [] result["status"] = "running" -> [code |-> 102, body |-> NoDoc]
         [] result["status"] = "failed" -> [code |-> 404, body |-> NoDoc]
         [] OTHER -> ReadArtifact(uid)

\* result = COLL.find_one({"uid": uid}); the branches on its status; the file read
Download(c, uid) ==
  /\ jobType \in Downloadable
  /\ clients[c].pc = "idle"
  /\ ncalls < MaxCalls
  /\ LET res == DownloadResult(jobType, uid, find_one(ByUid(uid)))
     IN returns' = returns \cup {Response("download", 0, uid, res.code, res.body)}
  /\ ncalls' = ncalls + 1
  /\ UNCHANGED <<statics, faults, pure, files, api_keys, jobType, coll, lock, nextUid, clients, tasks, queue>>

\* ------------------------------------------------- API key housekeeping
\* every entry whose expiry has passed is deleted from the API key collection
invalidate_expired_keys ==
  /\ \E entry \in api_keys : entry.expired
  /\ api_keys' = {entry \in api_keys : ~entry.expired}
  /\ UNCHANGED <<statics, faults, pure, files, jobType, coll, lock, nextUid, clients, tasks, returns, ncalls, queue>>

\* ------------------------------------------------- queue_and_wait_for_job
QueueTags == {"must", "kpm", "domino", "robust", "diamond", "bicon", "graph", "closeness",
              "trustrank", "validation-drug", "validation-module", "validation-joint",
              "comorbiditome"}

\* (mutant) the background task does not wait for the response
EnqueueBeforeReturn(t) ==
  /\ tasks[t].wait = "added"
  /\ tasks[t].tag \in QueueTags
  /\ tasks' = [tasks EXCEPT ![t].wait = "polling", ![t].rq = "queued"]
  /\ queue' = Append(queue, t)
  /\ UNCHANGED <<statics, faults, pure, files, api_keys, jobType, coll, lock, nextUid, clients, returns, ncalls>>

\* the background task starts once the response is sent: job = QUEUE.enqueue(wrapper, uid)
Enqueue(t) ==
  /\ tasks[t].wait = "added"
  /\ tasks[t].by = 0
  /\ tasks[t].tag \in QueueTags
  /\ tasks' = [tasks EXCEPT ![t].wait = "polling", ![t].rq = "queued"]
  /\ queue' = Append(queue, t)
  /\ UNCHANGED <<statics, faults, pure, files, api_keys, jobType, coll, lock, nextUid, clients, returns, ncalls>>

\* (mutant) the wrapper returns on any final status of the queue job
PollIgnoresFailure(t) ==
  /\ tasks[t].wait = "polling"
  /\ tasks[t].rq \in {"finished", "failed"}
  /\ tasks' = [tasks EXCEPT ![t].wait = "returned"]
  /\ UNCHANGED <<statics, faults, pure, files, api_keys, jobType, coll, lock, nextUid, clients, returns, ncalls, queue>>

\* status = job.get_status(refresh=True): finished returns, failed raises
Poll(t) ==
  /\ tasks[t].wait = "polling"
  /\ tasks[t].rq \in {"finished", "failed"}
  /\ tasks' = [tasks EXCEPT ![t].wait = IF tasks[t].rq = "finished" THEN "returned" ELSE "raised"]
  /\ UNCHANGED <<statics, faults, pure, files, api_keys, jobType, coll, lock, nextUid, clients, returns, ncalls, queue>>

\* ------------------------------------------------------------- workers
Started == {t \in 1..Len(tasks) : tasks[t].rq = "started"}

\* a free RQ worker takes the oldest queued job and calls its wrapper
WorkerStart(t) ==
  /\ queue # <<>>
  /\ t = Head(queue)
  /\ Cardinality(Started) < NumWorkers
  /\ queue' = Tail(queue)
  /\ tasks' = [tasks EXCEPT ![t].rq = "started", ![t].pc = "lookup"]
  /\ UNCHANGED <<statics, faults, pure, files, api_keys, jobType, coll, lock, nextUid, clients, returns, ncalls>>

ValidationTags == {"validation-drug", "validation-module", "validation-joint"}

\* (mutant) the worker writes the queue's name for a job in progress
RunningStatusOfQueue(tag) == "started"

\* the status a worker writes when it starts its job
RunningStatus(tag) == IF tag = "graph" THEN "building" ELSE "running"

\* with LOCK: details = COLL.find_one({"uid": uid})
Lookup(t) ==
  /\ tasks[t].pc = "lookup"
  /\ tasks[t].tag \notin ValidationTags
  /\ Acquirable
  /\ lock' = Task(t)
  /\ tasks' = [tasks EXCEPT ![t].pc = "mark", ![t].details = find_one(ByUid(tasks[t].uid))]
  /\ UNCHANGED <<statics, faults, pure, files, api_keys, jobType, coll, nextUid, clients, returns, ncalls, queue>>

\* validation workers: details = _VALIDATION_COLL.find_one({"uid": uid}), no lock held
ValidationLookup(t) ==
  /\ tasks[t].pc = "lookup"
  /\ tasks[t].tag \in ValidationTags
  /\ LET details == find_one(ByUid(tasks[t].uid))
     IN tasks' = [tasks EXCEPT ![t].details = details,
                               ![t].pc = IF IsNone(details) THEN "handler_lock" ELSE "mark_lock",
                               ![t].res = IF IsNone(details) THEN "missing" ELSE "none"]
  /\ UNCHANGED <<statics, faults, pure, files, api_keys, jobType, coll, lock, nextUid, clients, returns, ncalls, queue>>

\* validation workers: with _VALIDATION_COLL_LOCK:
ValidationMarkLock(t) ==
  /\ tasks[t].pc = "mark_lock"
  /\ Acquirable
  /\ lock' = Task(t)
  /\ tasks' = [tasks EXCEPT ![t].pc = "mark"]
  /\ UNCHANGED <<statics, faults, pure, files, api_keys, jobType, coll, nextUid, clients, returns, ncalls, queue>>

\* (mutant) the with block is not left before the algorithm starts
MarkRunningKeepsLock(t) ==
  /\ tasks[t].pc = "mark"
  /\ IF IsNone(tasks[t].details)
     THEN /\ tasks' = [tasks EXCEPT ![t].pc = "handler_lock", ![t].res = "missing"]
          /\ coll' = coll
     ELSE /\ tasks' = [tasks EXCEPT ![t].pc = "exec"]
          /\ coll' = update_one(ByUid(tasks[t].uid), [status |-> RunningStatus(tasks[t].tag)])
  /\ UNCHANGED <<statics, faults, pure, files, api_keys, jobType, lock, nextUid, clients, returns, ncalls, queue>>

\* if not details: raise; update_one({"uid": uid}, {"$set": {"status": "running"}}); block ends
MarkRunning(t) ==
  /\ tasks[t].pc = "mark"
  /\ lock' = Free
  /\ IF IsNone(tasks[t].details)
     THEN /\ tasks' = [tasks EXCEPT ![t].pc = "handler_lock", ![t].res = "missing"]
          /\ coll' = coll
     ELSE /\ tasks' = [tasks EXCEPT ![t].pc = "exec"]
          /\ coll' = update_one(ByUid(tasks[t].uid), [status |-> RunningStatus(tasks[t].tag)])
  /\ UNCHANGED <<statics, faults, pure, files, api_keys, jobType, nextUid, clients, returns, ncalls, queue>>

\* (mutant) the pair of seed type and network is not looked up in QUERY_MAP
RaisesOnSkipsQueryMap(tag, details) ==
  CASE tag = "bicon" ->
         IF details["network"] \notin {"DEFAULT", "SHARED_DISORDER"} THEN "exception" ELSE "none"
    [] tag = "validation-joint" ->
         IF details["module_member_type"] \notin {"gene", "protein"}
         THEN "exception" ELSE "none"
    [] tag = "graph" ->
         IF "reviewed_proteins" \notin DOMAIN details THEN "KeyError" ELSE "none"
    [] OTHER -> "none"

\* what the job raises from its record alone, before the algorithm runs
RaisesOn(tag, details) ==
  CASE tag \in {"diamond", "kpm"} ->
         IF <<details["seed_type"], details["network"]>> \notin QUERY_MAP
         THEN "incompatible" ELSE "none"
    [] tag = "bicon" ->
         IF details["network"] \notin {"DEFAULT", "SHARED_DISORDER"} THEN "exception" ELSE "none"
    [] tag = "validation-joint" ->
         IF details["module_member_type"] \notin {"gene", "protein"}
         THEN "exception" ELSE "none"
    [] tag = "graph" ->
         IF "reviewed_proteins" \notin DOMAIN details THEN "KeyError" ELSE "none"
    [] OTHER -> "none"

\* how the external algorithm can end: exit code 0, non-zero without or with
\* parseable output, or an exception in the worker's own code around it
Outcomes(tag) ==
  IF tag = "graph" THEN {"ok", "exception"}
  ELSE {"ok", "nonzero", "nonzero_output", "exception"}

\* (mutant) the algorithm never ends
AfterExecHangs(tag, outcome) == "exec_forever"

\* where the job continues after the algorithm ended with outcome
AfterExec(tag, outcome) ==
  CASE outcome = "ok" -> "complete_lock"
    [] outcome = "exception" -> "handler_lock"
    [] outcome \in {"nonzero", "nonzero_output"} ->
         IF tag \in ValidationTags THEN "complete_lock" ELSE "fail_lock"

\* the jobs that leave a downloadable file named after the uid in the data directory
ArtifactTags == {"diamond", "bicon", "graph"}

\* the body between the two status updates: network lookup, subprocess, parsing
Exec(t, outcome) ==
  /\ tasks[t].pc = "exec"
  /\ outcome \in Outcomes(tasks[t].tag)
  /\ LET raised == RaisesOn(tasks[t].tag, tasks[t].details)
     IN /\ tasks' = IF raised # "none"
                    THEN [tasks EXCEPT ![t].pc = "handler_lock", ![t].res = raised]
                    ELSE [tasks EXCEPT ![t].pc = AfterExec(tasks[t].tag, outcome),
                                       ![t].res = outcome]
        /\ files' = IF raised = "none" /\ outcome = "ok" /\ tasks[t].tag \in ArtifactTags
                     THEN files \cup {tasks[t].uid}
                     ELSE files
  /\ UNCHANGED <<statics, faults, pure, api_keys, jobType, coll, lock, nextUid, clients, returns, ncalls, queue>>

\* a with LOCK: block around one status update is entered
WriteLock(t) ==
  /\ tasks[t].pc \in {"fail_lock", "complete_lock", "handler_lock"}
  /\ Acquirable
  /\ lock' = Task(t)
  /\ tasks' = [tasks EXCEPT ![t].pc =
                 CASE tasks[t].pc = "fail_lock" -> "fail_write"
                   [] tasks[t].pc = "complete_lock" -> "complete_write"
                   [] tasks[t].pc = "handler_lock" -> "handler_write"]
  /\ UNCHANGED <<statics, faults, pure, files, api_keys, jobType, coll, nextUid, clients, returns, ncalls, queue>>

\* the wrapper returns (or re-raises): RQ records the job's final status
Finished(task, rq) ==
  [task EXCEPT !.pc = "done", !.rq = rq, !.details = NoDoc, !.res = "none"]

\* if res != 0: update_one(... {"status": "failed", "error": ...}); return
\* (run_kpm has no return here and goes on to parse the output)
FailWrite(t) ==
  /\ tasks[t].pc = "fail_write"
  /\ coll' = update_one(ByUid(tasks[t].uid), [status |-> "failed", error |-> "exit code"])
  /\ lock' = Free
  /\ tasks' = [tasks EXCEPT ![t] =
                 IF tasks[t].tag = "kpm"
                 THEN [@ EXCEPT !.pc = IF tasks[t].res = "nonzero_output"
                                       THEN "complete_lock" ELSE "handler_lock"]
                 ELSE Finished(@, "finished")]
  /\ UNCHANGED <<statics, faults, pure, files, api_keys, jobType, nextUid, clients, returns, ncalls, queue>>

\* the fields the completing update sets besides status
ResultFields(tag) ==
  CASE tag \in {"diamond", "kpm"} -> [results |-> "results"]
    [] tag = "bicon" -> [result |-> "results"]
    [] tag \in ValidationTags ->
         ("empirical p-value" :> "pval") @@ ("empirical (precision-based) p-value" :> "pval")
    [] OTHER -> NoDoc

\* update_one({"uid": uid}, {"$set": {"status": "completed", ...}})
\* (a validation job whose output lacks the p-value lines raises inside the block)
CompleteWrite(t) ==
  /\ tasks[t].pc = "complete_write"
  /\ lock' = Free
  /\ IF tasks[t].tag \in ValidationTags /\ tasks[t].res = "nonzero"
     THEN /\ coll' = coll
          /\ tasks' = [tasks EXCEPT ![t].pc = "handler_lock"]
     ELSE /\ coll' = update_one(ByUid(tasks[t].uid),
                                [status |-> "completed"] @@ ResultFields(tasks[t].tag))
          /\ tasks' = [tasks EXCEPT ![t] = Finished(@, "finished")]
  /\ UNCHANGED <<statics, faults, pure, files, api_keys, jobType, nextUid, clients, returns, ncalls, queue>>

\* (mutant) every wrapper re-raises what it caught
HandlerWriteReraises(t) ==
  /\ tasks[t].pc = "handler_write"
  /\ coll' = update_one(ByUid(tasks[t].uid), [status |-> "failed", error |-> tasks[t].res])
  /\ lock' = Free
  /\ tasks' = [tasks EXCEPT ![t] = Finished(@, "failed")]
  /\ UNCHANGED <<statics, faults, pure, files, api_keys, jobType, nextUid, clients, returns, ncalls, queue>>

\* except Exception as E: update_one(... {"status": "failed", "error": f"{E}"})
\* (graph_constructor_wrapper re-raises E)
HandlerWrite(t) ==
  /\ tasks[t].pc = "handler_write"
  /\ coll' = update_one(ByUid(tasks[t].uid), [status |-> "failed", error |-> tasks[t].res])
  /\ lock' = Free
  /\ tasks' = [tasks EXCEPT ![t] =
                 Finished(@, IF tasks[t].tag = "graph" THEN "failed" ELSE "finished")]
  /\ UNCHANGED <<statics, faults, pure, files, api_keys, jobType, nextUid, clients, returns, ncalls, queue>>

TaskIds == 1..Len(tasks)

Next ==
  \/ \E c \in Clients, q \in QueryIds : SubmitLookup(c, q)
  \/ \E c \in Clients : SubmitFound(c)
  \/ \E c \in Clients : SubmitInsert(c)
  \/ \E c \in Clients, q \in QueryIds : BiconLookup(c, q)
  \/ \E c \in Clients : BiconChecked(c)
  \/ \E c \in Clients : BiconInsertLock(c)
  \/ \E c \in Clients : BiconInsert(c)
  \/ \E c \in Clients, uid \in Uids \cup {UnknownUid} : ResubmitFind(c, uid)
  \/ \E c \in Clients, uid \in Uids \cup {UnknownUid} : ResubmitRaises(c, uid)
  \/ \E c \in Clients : ResubmitReplace(c)
  \/ \E c \in Clients : Return(c)
  \/ \E c \in Clients, r \in Requests(jobType) : SubmitRejected(c, r)
  \/ \E c \in Clients, uid \in Uids \cup {UnknownUid} : Status(c, uid)
  \/ \E c \in Clients, uid \in Uids \cup {UnknownUid} : Download(c, uid)
  \/ invalidate_expired_keys
  \/ \E t \in TaskIds : Enqueue(t)
  \/ \E t \in TaskIds : Poll(t)
  \/ \E t \in TaskIds : WorkerStart(t)
  \/ \E t \in TaskIds : Lookup(t)
  \/ \E t \in TaskIds : ValidationLookup(t)
  \/ \E t \in TaskIds : ValidationMarkLock(t)
  \/ \E t \in TaskIds : MarkRunning(t)
  \/ \E t \in TaskIds, outcome \in {"ok", "nonzero", "nonzero_output", "exception"} : Exec(t, outcome)
  \/ \E t \in TaskIds : WriteLock(t)
  \/ \E t \in TaskIds : FailWrite(t)
  \/ \E t \in TaskIds : CompleteWrite(t)
  \/ \E t \in TaskIds : HandlerWrite(t)

Spec == Init /\ [][Next]_vars

CanonSpec == Init /\ [][CanonNext]_vars

\* ------------------------------------------------------- faults from outside
\* the positions at which a worker is inside a with LOCK: block
WorkerLockedPcs == {"mark", "fail_write", "complete_write", "handler_write"}

\* the process serving a request dies inside a with LOCK: block; nothing runs
\* __exit__, so the lock is not released
CrashHandler(c) ==
  /\ faults < MaxFaults
  /\ clients[c].pc \in {"submit_locked", "bicon_locked", "bicon_insert"}
  /\ clients' = [clients EXCEPT ![c].pc = "crashed"]
  /\ faults' = faults + 1
  /\ UNCHANGED <<statics, pure, files, api_keys, jobType, coll, lock, nextUid, tasks, returns, ncalls, queue>>

\* (mutant) the lock of a dead worker is reclaimed
CrashWorkerReleases(t) ==
  /\ faults < MaxFaults
  /\ tasks[t].pc \in WorkerLockedPcs
  /\ tasks' = [tasks EXCEPT ![t].pc = "crashed"]
  /\ lock' = Free
  /\ faults' = faults + 1
  /\ UNCHANGED <<statics, pure, files, api_keys, jobType, coll, nextUid, clients, returns, ncalls, queue>>

\* the worker process dies inside a with LOCK: block; the lock is not released
\* and nobody is left to report the job's end to the queue
CrashWorker(t) ==
  /\ faults < MaxFaults
  /\ tasks[t].pc \in WorkerLockedPcs
  /\ tasks' = [tasks EXCEPT ![t].pc = "crashed"]
  /\ faults' = faults + 1
  /\ UNCHANGED <<statics, pure, files, api_keys, jobType, coll, lock, nextUid, clients, returns, ncalls, queue>>

\* how the queue can end a job that runs longer than job_timeout: by raising its
\* timeout exception inside the job, or by killing the process that runs it
TimeoutOutcomes == {"raised", "killed"}

\* (mutant) a killed job is recorded by the queue as finished
TimeoutKilledFinishes(t, outcome) ==
  /\ faults < MaxFaults
  /\ tasks[t].pc = "exec"
  /\ tasks' = IF outcome = "raised"
              THEN [tasks EXCEPT ![t].pc = "handler_lock", ![t].res = "timeout"]
              ELSE [tasks EXCEPT ![t].pc = "killed", ![t].rq = "finished"]
  /\ faults' = faults + 1
  /\ UNCHANGED <<statics, pure, files, api_keys, jobType, coll, lock, nextUid, clients, returns, ncalls, queue>>

\* QUEUE.enqueue(wrapper, uid, job_timeout=TIMEOUT): the job is in its algorithm
\* when the timeout expires. Raised inside the job, the exception reaches the
\* wrapper's except Exception; a killed job runs no more code and the queue
\* records it as failed.
Timeout(t, outcome) ==
  /\ faults < MaxFaults
  /\ tasks[t].pc = "exec"
  /\ tasks' = IF outcome = "raised"
              THEN [tasks EXCEPT ![t].pc = "handler_lock", ![t].res = "timeout"]
              ELSE [tasks EXCEPT ![t].pc = "killed", ![t].rq = "failed"]
  /\ faults' = faults + 1
  /\ UNCHANGED <<statics, pure, files, api_keys, jobType, coll, lock, nextUid, clients, returns, ncalls, queue>>

\* the job engine with faults: submissions, resubmissions, the queue and the
\* workers, and the three faults
FaultNext ==
  \/ \E c \in Clients, q \in QueryIds : SubmitLookup(c, q)
  \/ \E c \in Clients : SubmitFound(c)
  \/ \E c \in Clients : SubmitInsert(c)
  \/ \E c \in Clients, q \in QueryIds : BiconLookup(c, q)
  \/ \E c \in Clients : BiconChecked(c)
  \/ \E c \in Clients : BiconInsertLock(c)
  \/ \E c \in Clients : BiconInsert(c)
  \/ \E c \in Clients, uid \in Uids : ResubmitFind(c, uid)
  \/ \E c \in Clients : ResubmitReplace(c)
  \/ \E c \in Clients : Return(c)
  \/ \E t \in TaskIds : Enqueue(t)
  \/ \E t \in TaskIds : Poll(t)
  \/ \E t \in TaskIds : WorkerStart(t)
  \/ \E t \in TaskIds : Lookup(t)
  \/ \E t \in TaskIds : ValidationLookup(t)
  \/ \E t \in TaskIds : ValidationMarkLock(t)
  \/ \E t \in TaskIds : MarkRunning(t)
  \/ \E t \in TaskIds, outcome \in {"ok", "nonzero", "nonzero_output", "exception"} : Exec(t, outcome)
  \/ \E t \in TaskIds : WriteLock(t)
  \/ \E t \in TaskIds : FailWrite(t)
  \/ \E t \in TaskIds : CompleteWrite(t)
  \/ \E t \in TaskIds : HandlerWrite(t)
  \/ \E c \in Clients : CrashHandler(c)
  \/ \E t \in TaskIds : CrashWorker(t)
  \/ \E t \in TaskIds, outcome \in TimeoutOutcomes : Timeout(t, outcome)

FaultSpec == Init /\ [][FaultNext]_vars

\* ------------------------------------------------------- fair scheduling
\* a step of a handler that is past its first statement, of a wait wrapper or
\* of a worker: everything but the arrival of a new request
Progress ==
  \/ \E c \in Clients : SubmitFound(c)
  \/ \E c \in Clients : SubmitInsert(c)
  \/ \E c \in Clients : BiconChecked(c)
  \/ \E c \in Clients : BiconInsertLock(c)
  \/ \E c \in Clients : BiconInsert(c)
  \/ \E c \in Clients : ResubmitReplace(c)
  \/ \E c \in Clients : Return(c)
  \/ \E t \in TaskIds : Enqueue(t)
  \/ \E t \in TaskIds : Poll(t)
  \/ \E t \in TaskIds : WorkerStart(t)
  \/ \E t \in TaskIds : Lookup(t)
  \/ \E t \in TaskIds : ValidationLookup(t)
  \/ \E t \in TaskIds : ValidationMarkLock(t)
  \/ \E t \in TaskIds : MarkRunning(t)
  \/ \E t \in TaskIds, outcome \in {"ok", "nonzero", "nonzero_output", "exception"} : Exec(t, outcome)
  \/ \E t \in TaskIds : WriteLock(t)
  \/ \E t \in TaskIds : FailWrite(t)
  \/ \E t \in TaskIds : CompleteWrite(t)
  \/ \E t \in TaskIds : HandlerWrite(t)

\* requests arrive when they like; what has started goes on
LiveNext ==
  \/ \E c \in Clients, q \in QueryIds : SubmitLookup(c, q)
  \/ \E c \in Clients, q \in QueryIds : BiconLookup(c, q)
  \/ \E c \in Clients, uid \in Uids : ResubmitFind(c, uid)
  \/ Progress

\* no process crashes, no timeout, a terminating algorithm, and the server and
\* the workers do not stop while one of them can take a step
LiveSpec == Init /\ [][LiveNext]_vars /\ WF_vars(Progress)

\* ------------------------------------- static files and network generation
\* every variable of the job engine but the count of calls
engine == <<jobType, coll, lock, nextUid, clients, tasks, returns, queue, files, api_keys,
            pure, faults>>

\* the collection lock of a job type
CollLock(kind) ==
  CASE kind = "closeness" -> "closeness_collection_lock"
    [] kind = "validation" -> "validation_collection_lock"
    [] kind \in {"diamond", "submit"} -> "diamond_collection_lock"

\* the lock and the flag of the static files a job type needs
StaticLock(kind) ==
  IF kind = "closeness" THEN "static-ranking-lock" ELSE "static-validation-lock"

Flag(kind) == IF kind = "closeness" THEN "static-ranking" ELSE "static-validation"

\* where a job goes on once the generator function has returned
AfterGenerate(kind) == IF kind = "validation" THEN "find" ELSE "block_lock"

\* a process starts a job or a handler call; run_closeness calls the generator
\* if the ranking file does not exist, the validation jobs call theirs always
StartJob(w, kind, exists) ==
  /\ jobs[w].pc = "idle"
  /\ ncalls < MaxCalls
  /\ jobs' = [jobs EXCEPT ![w] =
                [kind |-> kind,
                 pc |-> CASE kind = "validation" -> "acquire"
                          [] kind = "closeness" /\ ~exists -> "acquire"
                          [] OTHER -> "block_lock"]]
  /\ ncalls' = ncalls + 1
  /\ UNCHANGED <<engine, locks, STATUS>>

\* _STATIC_RANKING_LOCK.acquire() / _STATIC_VALIDATION_LOCK.acquire()
AcquireStatic(w) ==
  /\ jobs[w].pc = "acquire"
  /\ locks[StaticLock(jobs[w].kind)] = Free
  /\ locks' = [locks EXCEPT ![StaticLock(jobs[w].kind)] = Job(w)]
  /\ jobs' = [jobs EXCEPT ![w].pc = "check"]
  /\ UNCHANGED <<engine, ncalls, STATUS>>

\* (mutant) the generator is skipped once the flag has been set at all
CheckStatusAnyValue(w) ==
  /\ jobs[w].pc = "check"
  /\ IF STATUS[Flag(jobs[w].kind)] # "None"
     THEN /\ locks' = [locks EXCEPT ![StaticLock(jobs[w].kind)] = Free]
          /\ jobs' = [jobs EXCEPT ![w].pc = AfterGenerate(jobs[w].kind)]
     ELSE /\ locks' = locks
          /\ jobs' = [jobs EXCEPT ![w].pc = "popen"]
  /\ UNCHANGED <<engine, ncalls, STATUS>>

\* if _STATUS.get(flag) is True: release(); return
CheckStatus(w) ==
  /\ jobs[w].pc = "check"
  /\ IF STATUS[Flag(jobs[w].kind)] = "True"
     THEN /\ locks' = [locks EXCEPT ![StaticLock(jobs[w].kind)] = Free]
          /\ jobs' = [jobs EXCEPT ![w].pc = AfterGenerate(jobs[w].kind)]
     ELSE /\ locks' = locks
          /\ jobs' = [jobs EXCEPT ![w].pc = "popen"]
  /\ UNCHANGED <<engine, ncalls, STATUS>>

\* proc = Popen([...], cwd=...): the subprocess starts, or Popen raises (no
\* interpreter, no such directory) and the exception leaves the function
Popen(w, raises) ==
  /\ jobs[w].pc = "popen"
  /\ jobs' = [jobs EXCEPT ![w].pc = IF raises THEN "handler_lock" ELSE "communicate"]
  /\ UNCHANGED <<engine, ncalls, locks, STATUS>>

\* proc.communicate(); the flag is set from the return code; release()
\* (an exception raised while waiting leaves the function before both)
Communicate(w, outcome) ==
  /\ jobs[w].pc = "communicate"
  /\ IF outcome = "raises"
     THEN /\ jobs' = [jobs EXCEPT ![w].pc = "handler_lock"]
          /\ UNCHANGED <<locks, STATUS>>
     ELSE /\ STATUS' = [STATUS EXCEPT ![Flag(jobs[w].kind)] =
                          IF outcome = "zero" THEN "True" ELSE "False"]
          /\ locks' = [locks EXCEPT ![StaticLock(jobs[w].kind)] = Free]
          /\ jobs' = [jobs EXCEPT ![w].pc = AfterGenerate(jobs[w].kind)]
  /\ UNCHANGED <<engine, ncalls>>

\* details = _VALIDATION_COLL.find_one({"uid": uid}); if not details: raise
ValidationFind(w, found) ==
  /\ jobs[w].pc = "find"
  /\ jobs' = [jobs EXCEPT ![w].pc = IF found THEN "block_lock" ELSE "handler_lock"]
  /\ UNCHANGED <<engine, ncalls, locks, STATUS>>

\* with <collection lock>: is entered, by a job's body, its last write, the
\* wrapper's handler or the submit handler
EnterBlock(w) ==
  /\ jobs[w].pc \in {"block_lock", "write_lock", "handler_lock"}
  /\ locks[CollLock(jobs[w].kind)] = Free
  /\ locks' = [locks EXCEPT ![CollLock(jobs[w].kind)] = Job(w)]
  /\ jobs' = [jobs EXCEPT ![w].pc =
                CASE jobs[w].pc = "block_lock" -> "block"
                  [] jobs[w].pc = "write_lock" -> "write"
                  [] jobs[w].pc = "handler_lock" -> "handler"]
  /\ UNCHANGED <<engine, ncalls, STATUS>>

\* the first block ends: the handler returns; a job has marked its record
\* running, or raised because there is none (the validation jobs looked before)
LeaveBlock(w, found) ==
  /\ jobs[w].pc = "block"
  /\ locks' = [locks EXCEPT ![CollLock(jobs[w].kind)] = Free]
  /\ jobs' = [jobs EXCEPT ![w] =
                CASE jobs[w].kind = "submit" -> IdleJob
                  [] jobs[w].kind = "validation" -> [@ EXCEPT !.pc = "run"]
                  [] ~found -> [@ EXCEPT !.pc = "handler_lock"]
                  [] jobs[w].kind = "diamond" -> [@ EXCEPT !.pc = "network_lock"]
                  [] OTHER -> [@ EXCEPT !.pc = "run"]]
  /\ UNCHANGED <<engine, ncalls, STATUS>>

\* get_network: with NETWORK_GEN_LOCK:
EnterNetwork(w) ==
  /\ jobs[w].pc = "network_lock"
  /\ locks["network_generation_lock"] = Free
  /\ locks' = [locks EXCEPT !["network_generation_lock"] = Job(w)]
  /\ jobs' = [jobs EXCEPT ![w].pc = "network"]
  /\ UNCHANGED <<engine, ncalls, STATUS>>

\* the network file is returned, or building it raises; the block ends either way
LeaveNetwork(w, raises) ==
  /\ jobs[w].pc = "network"
  /\ locks' = [locks EXCEPT !["network_generation_lock"] = Free]
  /\ jobs' = [jobs EXCEPT ![w].pc = IF raises THEN "handler_lock" ELSE "run"]
  /\ UNCHANGED <<engine, ncalls, STATUS>>

\* the algorithm's subprocess and the parsing of its output, outside every lock
Subprocess(w, raises) ==
  /\ jobs[w].pc = "run"
  /\ jobs' = [jobs EXCEPT ![w].pc = IF raises THEN "handler_lock" ELSE "write_lock"]
  /\ UNCHANGED <<engine, ncalls, locks, STATUS>>

\* the block around the job's last update_one ends, and with it the job
LeaveWrite(w) ==
  /\ jobs[w].pc \in {"write", "handler"}
  /\ locks' = [locks EXCEPT ![CollLock(jobs[w].kind)] = Free]
  /\ jobs' = [jobs EXCEPT ![w] = IdleJob]
  /\ UNCHANGED <<engine, ncalls, STATUS>>

StaticNext ==
  \/ \E w \in Workers, kind \in Kinds, exists \in BOOLEAN : StartJob(w, kind, exists)
  \/ \E w \in Workers : AcquireStatic(w)
  \/ \E w \in Workers : CheckStatus(w)
  \/ \E w \in Workers, raises \in BOOLEAN : Popen(w, raises)
  \/ \E w \in Workers, outcome \in {"zero", "nonzero", "raises"} : Communicate(w, outcome)
  \/ \E w \in Workers, found \in BOOLEAN : ValidationFind(w, found)
  \/ \E w \in Workers : EnterBlock(w)
  \/ \E w \in Workers, found \in BOOLEAN : LeaveBlock(w, found)
  \/ \E w \in Workers : EnterNetwork(w)
  \/ \E w \in Workers, raises \in BOOLEAN : LeaveNetwork(w, raises)
  \/ \E w \in Workers, raises \in BOOLEAN : Subprocess(w, raises)
  \/ \E w \in Workers : LeaveWrite(w)

StaticSpec == Init /\ [][StaticNext]_vars


\* ================================================================ claims
Docs == 1..Len(coll)
StatusOf(i) == coll[i]["status"]
SubmitTasksFor(uid) == {t \in TaskIds : tasks[t].uid = uid /\ tasks[t].origin = "submit"}
Resubmitted == \E t \in TaskIds : tasks[t].origin = "resubmit"
ResultKeys ==
  {"results", "result", "empirical p-value", "empirical (precision-based) p-value"}

C2_BiconOnePerQuery ==
  jobType = "bicon" =>
    \A q \in QueryIds :
      /\ Cardinality(Matching(BiconQuery(q))) <= 1
      /\ Cardinality({t \in TaskIds : \E i \in Matching(BiconQuery(q)) :
                        tasks[t].uid = coll[i]["uid"] /\ tasks[t].origin = "submit"}) <= 1

\* C3: a submission whose lookup finds a record (of any status) ends its locked
\* block without touching the collection or the background tasks and returns
\* the uid of the record it found.
C3_DedupIdempotence ==
  [][\A c \in Clients :
       (/\ clients[c].pc \in {"submit_locked", "bicon_locked"}
        /\ ~IsNone(clients[c].doc)
        /\ clients'[c].pc # clients[c].pc)
       => /\ coll' = coll
          /\ tasks' = tasks
          /\ clients'[c].pc = "return"
          /\ clients'[c].uid = clients[c].doc["uid"]]_vars

\* A submission has found a record that already failed and is about to return its uid.
C3_Witness ==
  \E c \in Clients :
    /\ clients[c].pc = "return" /\ clients[c].op = "submit"
    /\ ~IsNone(clients[c].doc)
    /\ clients[c].doc["status"] = "failed"
    /\ clients[c].uid = clients[c].doc["uid"]

\* C4: no two records of a collection share a uid, and the background tasks
\* scheduled by submissions are one per record, carrying that record's uid.
C4_Uniqueness ==
  /\ \A i, j \in Docs : i # j => coll[i]["uid"] # coll[j]["uid"]
  /\ \A i \in Docs : Cardinality(SubmitTasksFor(coll[i]["uid"])) = 1
  /\ Cardinality({t \in TaskIds : tasks[t].origin = "submit"}) = Len(coll)

\* Two submissions with distinct queries are in flight together, each having inserted.
C4_Witness ==
  /\ Len(coll) = 2
  /\ \E c1, c2 \in Clients :
       /\ clients[c1].pc = "return" /\ clients[c2].pc = "return"
       /\ clients[c1].op = "submit" /\ clients[c2].op = "submit"
       /\ clients[c1].q # clients[c2].q
       /\ clients[c1].uid # clients[c2].uid

\* a step in which resubmit_job replaces a record
ResubmitStep ==
  \E c \in Clients : clients[c].pc = "resubmit_replace" /\ clients'[c].pc = "return"

InProgress == {"running", "building"}

\* C5: a record's status changes only along submitted -> running,
\* running -> completed, running -> failed, or back to submitted in a
\* resubmission (building counted as running).
C5_StateMachine ==
  [][\A i \in Docs :
       LET s == coll[i]["status"]
           n == coll'[i]["status"]
       IN \/ s = n
          \/ s = "submitted" /\ n \in InProgress
          \/ s \in InProgress /\ n \in {"completed", "failed"}
          \/ n = "submitted" /\ ResubmitStep]_vars

Active(t) == tasks[t].wait \in {"added", "polling"} /\ tasks[t].rq \notin {"finished", "failed"}

\* C7: at most one pending or executing background task per uid.
C7_OneWorkerPerUid ==
  \A t1, t2 \in TaskIds :
    (t1 # t2 /\ Active(t1) /\ Active(t2)) => tasks[t1].uid # tasks[t2].uid

\* C8: a record has an error field only if its status is failed.
C8_ErrorOnlyIfFailed ==
  \A i \in Docs : "error" \in DOMAIN coll[i] => StatusOf(i) = "failed"

\* C9: a record has result data only if its status is completed.
C9_ResultOnlyIfCompleted ==
  \A i \in Docs : DOMAIN coll[i] \cap ResultKeys # {} => StatusOf(i) = "completed"

\* C10: right after resubmit_job replaces a record, the record has only keys of
\* KEEP_KEYS[job_type] plus status, its status is submitted, and it has neither
\* an error nor result data.
C10_ResubmitScrubs ==
  [][\A c \in Clients :
       (clients[c].pc = "resubmit_replace" /\ clients'[c].pc = "return") =>
         \A i \in 1..Len(coll') :
           coll'[i]["uid"] = clients[c].uid =>
             /\ DOMAIN coll'[i] \subseteq KEEP_KEYS[jobType] \cup {"status"}
             /\ coll'[i]["status"] = "submitted"
             /\ "error" \notin DOMAIN coll'[i]
             /\ DOMAIN coll'[i] \cap ResultKeys = {}]_vars

\* A resubmission has just replaced a record that a finished worker had
\* completed or failed: the record is back to submitted and only the
\* resubmission's own task is left to run.
C10_Witness ==
  \E c \in Clients, i \in Docs :
    /\ clients[c].pc = "return" /\ clients[c].op = "resubmit"
    /\ coll[i]["uid"] = clients[c].uid
    /\ StatusOf(i) = "submitted"
    /\ DOMAIN coll[i] \cap (ResultKeys \cup {"error"}) = {}
    /\ \E t \in TaskIds : tasks[t].uid = clients[c].uid /\ tasks[t].pc = "done"
    /\ \A t \in TaskIds :
         (tasks[t].uid = clients[c].uid /\ tasks[t].pc # "done") => tasks[t].by = c

\* C11: a record keeps every canonical-query field with its value in every
\* step (resubmission included), so that a submission with the original
\* parameters still finds it.
C11_ResubmitPreservesQuery ==
  [][\A i \in Docs, q \in QueryIds :
       Matches(coll[i], CanonicalQuery(jobType, q)) =>
         /\ i <= Len(coll')
         /\ Matches(coll'[i], CanonicalQuery(jobType, q))]_vars

\* C12: resubmit_job called with the uid of an existing record does not end in
\* an error, whatever the job type; it sets the record to submitted, schedules
\* exactly one background task carrying that uid and returns that uid.
C12_ResubmitEveryType ==
  [][/\ \A r \in returns' \ returns :
          r.op = "resubmit_error" => IsNone(find_one(ByUid(r.uid)))
     /\ \A c \in Clients :
          (clients[c].pc = "resubmit_replace" /\ clients'[c].pc = "return") =>
            /\ \A i \in 1..Len(coll') :
                 coll'[i]["uid"] = clients[c].uid => coll'[i]["status"] = "submitted"
            /\ Len(tasks') = Len(tasks) + 1
            /\ tasks'[Len(tasks')].uid = clients[c].uid
            /\ clients'[c].uid = clients[c].uid]_vars

\* C14: no record and no background task exist for a (seed_type, network) pair
\* that is not a key of QUERY_MAP: such a submission was rejected.
C14_IncompatibleRejected ==
  jobType \in {"diamond", "kpm"} =>
    /\ \A i \in Docs : <<coll[i]["seed_type"], coll[i]["network"]>> \in QUERY_MAP
    /\ \A t \in TaskIds : \A i \in Docs :
         coll[i]["uid"] = tasks[t].uid =>
           <<coll[i]["seed_type"], coll[i]["network"]>> \in QUERY_MAP

\* how a worker's job went wrong: a non-zero exit code or an exception
Failures == {"nonzero", "nonzero_output", "exception", "incompatible", "KeyError", "missing"}

\* C15: when a worker task ends after a non-zero exit code or an exception,
\* its record has status failed and an error string.
C15_FailureMarksFailed ==
  [][\A t \in TaskIds :
       (tasks[t].pc # "done" /\ tasks'[t].pc = "done" /\ tasks[t].res \in Failures) =>
         \A i \in 1..Len(coll') :
           coll'[i]["uid"] = tasks[t].uid =>
             coll'[i]["status"] = "failed" /\ "error" \in DOMAIN coll'[i]]_vars

\* C16: a download answers by the record's status at the time of the call:
\* 404 for an unknown uid, the artifact for completed, 404 for failed, and the
\* still-running error 102 with no artifact for every other status.
C16_DownloadByStatus ==
  [][\A r \in returns' \ returns :
       r.op = "download" =>
         LET result == find_one(ByUid(r.uid))
         IN CASE IsNone(result) -> r.code = 404
              [] result["status"] = "completed" -> r.code = 200 /\ ~IsNone(r.body)
              [] result["status"] = "failed" -> r.code = 404
              [] OTHER -> r.code = 102 /\ IsNone(r.body)]_vars

\* C13: a submission that fails request validation is answered with a client
\* error without the lock being touched, and leaves the collection, the lock,
\* the background tasks and the queue as they were.
C13_RejectedNoEffect ==
  [][\A r \in returns' \ returns :
       r.op = "rejected" =>
         /\ r.code \in {400, 422}
         /\ coll' = coll /\ lock' = lock /\ tasks' = tasks /\ queue' = queue]_vars

\* A request has been rejected with 422 and another handler is inside its locked
\* block, with a record already in the collection.
C13_Witness ==
  /\ \E r \in returns : r.op = "rejected" /\ r.code = 422
  /\ \E c \in Clients : lock = Client(c)
  /\ coll # <<>>

\* the handler positions inside a with LOCK: block
LockedPcs == {"submit_locked", "bicon_locked", "bicon_insert"}

\* C17: a submit handler enters a locked block only by acquiring the free lock,
\* acts inside it only while it is the holder, and a record is inserted only by
\* the handler holding the lock.
C17_FailClosed ==
  [][/\ \A c \in Clients :
          /\ (clients'[c].pc \in LockedPcs /\ clients[c].pc \notin LockedPcs) =>
               lock = Free /\ lock' = Client(c)
          /\ (clients[c].pc \in LockedPcs /\ clients'[c] # clients[c]) => lock = Client(c)
     /\ Len(coll') > Len(coll) =>
          \E c \in Clients : lock = Client(c) /\ clients'[c] # clients[c]]_vars

\* One BiCoN submission is inside its insert block while another, which also
\* found nothing, cannot acquire the lock for its own insert.
C17_Witness ==
  \E c1, c2 \in Clients :
    /\ clients[c1].pc = "bicon_insert" /\ lock = Client(c1)
    /\ clients[c2].pc = "bicon_upload"

\* C18: a worker holds the collection lock only in the single steps between a
\* lookup or status update and the end of its with block, never while its
\* algorithm runs, while it waits, or after it ended.
C18_LockScope ==
  \A t \in TaskIds :
    lock = Task(t) => tasks[t].pc \in {"mark", "fail_write", "complete_write", "handler_write"}

\* A job's algorithm is running (its record marked in progress) while a submit
\* handler holds the collection lock.
C18_Witness ==
  \E t \in TaskIds, c \in Clients, i \in Docs :
    /\ tasks[t].pc = "exec" /\ lock = Client(c)
    /\ coll[i]["uid"] = tasks[t].uid /\ StatusOf(i) \in InProgress

\* C19: no step removes a record or changes a record's uid.
C19_RecordsPersist ==
  [][\A i \in Docs :
       /\ i <= Len(coll')
       /\ "uid" \in DOMAIN coll'[i]
       /\ coll'[i]["uid"] = coll[i]["uid"]]_vars

\* A record has been through a worker, was replaced by a resubmission, and the
\* housekeeping has deleted the expired API key.
C19_Witness ==
  /\ \A entry \in api_keys : ~entry.expired
  /\ \E i \in Docs, t1, t2 \in TaskIds :
       /\ tasks[t1].uid = coll[i]["uid"] /\ tasks[t1].pc = "done"
       /\ tasks[t2].uid = coll[i]["uid"] /\ tasks[t2].origin = "resubmit"
       /\ StatusOf(i) = "submitted"

\* C20: a status request changes neither the collection, the lock, the
\* background tasks, the queue nor the files, and answers with the record of
\* that uid without _id, or with an empty object or 404 when there is none.
C20_StatusNoSideEffects ==
  [][\A r \in returns' \ returns :
       r.op = "status" =>
         /\ coll' = coll /\ lock' = lock /\ tasks' = tasks /\ queue' = queue
         /\ files' = files
         /\ LET result == find_one(ByUid(r.uid))
            IN IF IsNone(result)
               THEN IsNone(r.body) /\ r.code \in {200, 404}
               ELSE /\ r.code = 200
                    /\ DOMAIN r.body = DOMAIN result \ {"_id"}
                    /\ \A k \in DOMAIN r.body : r.body[k] = result[k]]_vars

\* A status request was answered with a record in progress, and one for an
\* unknown uid with an empty body.
C20_Witness ==
  /\ \E r \in returns :
       r.op = "status" /\ ~IsNone(r.body) /\ r.body["status"] \in InProgress
  /\ \E r \in returns : r.op = "status" /\ IsNone(r.body)

\* ---------------------------------------------- canonical queries (C21-C23)
\* the list-valued parameters of a request
ListFields(jt) ==
  CASE jt \in {"diamond", "kpm", "robust"} -> {"seeds"}
    [] jt = "graphs" -> {"nodes", "edges", "ppi_evidence"}
    [] jt = "validation" -> {"test_drugs", "true_drugs", "module_members"}

\* two values of a list-valued parameter hold the same elements; an optional
\* list is omitted in both requests or given in both
SetEqual(jt, x, y) ==
  IF jt = "graphs"
  THEN \/ x = <<>> /\ y = <<>>
       \/ x # <<>> /\ y # <<>> /\ Elements(x[1]) = Elements(y[1])
  ELSE Elements(x) = Elements(y)

\* two requests that differ only in the order or repetition of list elements
SameAsSets(jt, r1, r2) ==
  \A f \in DOMAIN r1 :
    IF f \in ListFields(jt) THEN SetEqual(jt, r1[f], r2[f]) ELSE r1[f] = r2[f]

\* C21 (as stated): requests whose list-valued parameters are equal as sets and
\* whose other parameters are equal produce the same canonical query.
C21_SetEqualSameQuery ==
  (pure.fn = "query" /\ SameAsSets(pure.jt, pure.a, pure.b)) => pure.ra = pure.rb

\* the defaults the request models document for their optional fields
DocumentedDefaults(jt) ==
  CASE jt = "diamond" -> [alpha |-> 1, network |-> "DEFAULT", edges |-> "all"]
    [] jt = "kpm" -> [network |-> "DEFAULT"]
    [] jt = "robust" -> [network |-> "DEFAULT", initial_fraction |-> 25,
                         reduction_factor |-> 90, num_trees |-> 30, threshold |-> 10]
    [] jt = "graphs" -> [nodes |-> DEFAULT_NODE_COLLECTIONS, edges |-> DocumentedEdges,
                         ppi_evidence |-> <<"exp">>, concise |-> TRUE]
    [] jt = "validation" -> NoDoc

\* request r with every omitted optional field given its documented default
Explicit(jt, r) ==
  [f \in DOMAIN r |->
     IF f \in DOMAIN DocumentedDefaults(jt) /\ r[f] = <<>>
     THEN <<DocumentedDefaults(jt)[f]>> ELSE r[f]]

\* C22 (as stated): a request that omits optional fields and the request that
\* supplies their documented defaults explicitly produce the same canonical query.
C22_DefaultsCollapse ==
  (pure.fn = "query" /\ pure.b = Explicit(pure.jt, pure.a)) =>
    (pure.ra # Invalid /\ pure.ra = pure.rb)

\* the upper-cased seeds of a call of normalise_seeds_and_determine_type
Uppered(seeds) == [i \in 1..Len(seeds) |-> upper(seeds[i])]

AllStart(seeds, prefix) == \A i \in 1..Len(seeds) : startswith(Uppered(seeds)[i], prefix)

AllNumeric(seeds) == \A i \in 1..Len(seeds) : isnumeric(Uppered(seeds)[i])

\* the seeds share no namespace: not all ENTREZ., not all numeric, not all UNIPROT.
Mixed(seeds) ==
  ~AllStart(seeds, "ENTREZ.") /\ ~AllNumeric(seeds) /\ ~AllStart(seeds, "UNIPROT.")

\* C23 (amended): every seed is upper-cased; when all seeds start with ENTREZ.
\* every occurrence of that text is removed and the type is gene; when all are
\* numeric the type is gene; when all start with UNIPROT. every occurrence of
\* that text is removed and the type is protein; otherwise the upper-cased
\* seeds are returned unchanged with type protein, whatever the majority is.
C23_Normalise ==
  pure.fn = "normalise" =>
    LET seeds == pure.a
        out == pure.ra
    IN /\ Len(out.seeds) = Len(seeds)
       /\ AllStart(seeds, "ENTREZ.") =>
            /\ out.seed_type = "gene"
            /\ \A i \in 1..Len(seeds) :
                 /\ "ENTREZ." \notin Elements(out.seeds[i])
                 /\ out.seeds[i] = replace(Uppered(seeds)[i], "ENTREZ.")
       /\ AllNumeric(seeds) => out.seed_type = "gene" /\ out.seeds = Uppered(seeds)
       /\ AllStart(seeds, "UNIPROT.") =>
            /\ out.seed_type = "protein"
            /\ \A i \in 1..Len(seeds) :
                 /\ "UNIPROT." \notin Elements(out.seeds[i])
                 /\ out.seeds[i] = replace(Uppered(seeds)[i], "UNIPROT.")
       /\ Mixed(seeds) => out.seed_type = "protein" /\ out.seeds = Uppered(seeds)

\* a call on seeds without a common namespace, most of which look like genes
C23_Witness ==
  /\ pure.fn = "normalise"
  /\ pure.a = <<<<"1">>, <<"entrez.", "1">>>>
  /\ pure.ra = [seeds |-> <<<<"1">>, <<"ENTREZ.", "1">>>>, seed_type |-> "protein"]

\* C23 (as stated): as above, but seeds without a common namespace are
\* classified gene or protein by majority, protein by default.
C23_MajorityClassified ==
  pure.fn = "normalise" =>
    LET seeds == pure.a
        out == pure.ra
        genes == Cardinality({i \in 1..Len(seeds) : GeneLike(Uppered(seeds)[i])})
    IN /\ AllStart(seeds, "ENTREZ.") =>
            /\ out.seed_type = "gene"
            /\ \A i \in 1..Len(seeds) : out.seeds[i] = replace(Uppered(seeds)[i], "ENTREZ.")
       /\ AllNumeric(seeds) => out.seed_type = "gene" /\ out.seeds = Uppered(seeds)
       /\ AllStart(seeds, "UNIPROT.") =>
            /\ out.seed_type = "protein"
            /\ \A i \in 1..Len(seeds) : out.seeds[i] = replace(Uppered(seeds)[i], "UNIPROT.")
       /\ Mixed(seeds) =>
            /\ out.seeds = Uppered(seeds)
            /\ out.seed_type = IF 2 * genes > Len(seeds) THEN "gene" ELSE "protein"

\* ------------------------------------------------ ordering of a submission
\* the tasks added by a submit handler
SubmitTasks == {t \in TaskIds : tasks[t].origin = "submit"}

\* the submit call that created uid has returned it
Returned(uid) == \E resp \in returns : resp.op = "submit" /\ resp.uid = uid /\ resp.code = 200

\* C24: the task of a new submission is handed to the queue only after its
\* record is inserted, the lock released and the uid returned; while the
\* handler has not returned, the task has not started; a worker of a
\* submission always finds its record.
C24_EnqueueAfterReturn ==
  \A t \in SubmitTasks :
    /\ ~IsNone(find_one(ByUid(tasks[t].uid)))
    /\ tasks[t].by # 0 => tasks[t].wait = "added" /\ tasks[t].rq = "none"
    /\ tasks[t].wait # "added" =>
         /\ tasks[t].by = 0
         /\ Returned(tasks[t].uid)
         /\ \A c \in Clients : clients[c].uid = tasks[t].uid => clients[c].pc \notin LockedPcs
    /\ tasks[t].res # "missing"
    /\ tasks[t].pc \in {"mark", "mark_lock", "exec"} => ~IsNone(tasks[t].details)

\* a worker of a submission has looked up its record after the uid was returned
C24_Witness ==
  \E t \in SubmitTasks :
    /\ tasks[t].pc = "mark"
    /\ ~IsNone(tasks[t].details)
    /\ Returned(tasks[t].uid)

\* ------------------------------------------------ queue_and_wait_for_job
\* how often task t stands in the queue
Occurrences(q, t) == Cardinality({i \in 1..Len(q) : q[i] = t})

\* C27: every task carries a type tag of the chain; the wrapper enqueues its job
\* once, when it starts; it leaves the polling loop only by returning on
\* finished or raising on failed, and then does nothing more.
C27_WaitWrapper ==
  [][/\ \A t \in 1..Len(tasks') : tasks'[t].tag \in QueueTags
     /\ \A t \in TaskIds :
          LET before == tasks[t].wait
              after == tasks'[t].wait
          IN /\ Occurrences(queue', t) <= 1
             /\ Occurrences(queue', t) > Occurrences(queue, t) =>
                  before = "added" /\ after = "polling"
             /\ before = "added" => tasks[t].rq = "none"
             /\ (before = "added" /\ after # "added") =>
                  /\ after = "polling"
                  /\ tasks'[t].rq = "queued"
                  /\ Occurrences(queue', t) = 1
             /\ (before = "polling" /\ after # "polling") =>
                  \/ tasks[t].rq = "finished" /\ after = "returned"
                  \/ tasks[t].rq = "failed" /\ after = "raised"
             /\ before \in {"returned", "raised"} => tasks'[t] = tasks[t]]_vars

\* one wrapper has raised on a failed queue job and another has returned
C27_Witness ==
  /\ \E t \in TaskIds : tasks[t].wait = "raised" /\ tasks[t].rq = "failed"
  /\ \E t \in TaskIds : tasks[t].wait = "returned" /\ tasks[t].rq = "finished"

\* ------------------------------------------------ a worker's status writes
\* task t writes a terminal status in this step
TerminalWrite(t) ==
  /\ tasks[t].pc \in {"fail_write", "complete_write", "handler_write"}
  /\ tasks'[t].pc # tasks[t].pc
  /\ tasks[t].pc = "complete_write" => coll' # coll

\* C28 (as stated): without resubmission a worker task writes a terminal status
\* only after it wrote running, and after its terminal write it is done and
\* writes nothing more (in particular no completed after failed).
C28_WriteOrder ==
  [][~Resubmitted' =>
       \A t \in TaskIds :
         TerminalWrite(t) => tasks[t].res # "missing" /\ tasks'[t].pc = "done"]_vars

\* ------------------------------------------------ what a worker may write
\* the fields a worker sets
WorkerKeys == {"status", "error"} \cup ResultKeys

\* the collection differs only in worker-set fields of the records with uid
OnlyWorkerKeysOf(uid) ==
  /\ Len(coll') = Len(coll)
  /\ \A i \in Docs :
       IF coll[i]["uid"] # uid THEN coll'[i] = coll[i]
       ELSE /\ DOMAIN coll[i] \subseteq DOMAIN coll'[i]
            /\ DOMAIN coll'[i] \ DOMAIN coll[i] \subseteq WorkerKeys
            /\ \A k \in DOMAIN coll[i] \ WorkerKeys : coll'[i][k] = coll[i][k]

\* C30: a step of the worker task for uid u changes the collection only in the
\* status, error and result fields of the record with uid u; it inserts no
\* record and leaves every query field, every uid and every other record alone.
C30_WorkerFrame ==
  [][\A t \in TaskIds :
       (tasks[t].rq = "started" /\ tasks'[t] # tasks[t]) => OnlyWorkerKeysOf(tasks[t].uid)]_vars

\* a worker has finished one record while another record is still as submitted
C30_Witness ==
  \E i, j \in Docs :
    /\ i # j
    /\ StatusOf(i) \in {"completed", "failed"}
    /\ StatusOf(j) = "submitted"
    /\ \E t \in TaskIds : tasks[t].uid = coll[i]["uid"] /\ tasks[t].pc = "done"

\* ------------------------------------------------ timeouts and crashes
\* resubmit_job has replaced the record of uid
ResubmittedUid(uid) ==
  \/ \E c \in Clients :
       clients[c].op = "resubmit" /\ clients[c].uid = uid /\ clients[c].pc = "return"
  \/ \E resp \in returns : resp.op = "resubmit" /\ resp.uid = uid

\* a job killed by the timeout: the queue has it as failed, its wait wrapper
\* polls until it raises, and its record stays in progress until a resubmission
KilledLeavesRunning ==
  \A t \in TaskIds :
    tasks[t].pc = "killed" =>
      /\ tasks[t].rq = "failed"
      /\ tasks[t].wait \in {"polling", "raised"}
      /\ ~ResubmittedUid(tasks[t].uid) =>
           find_one(ByUid(tasks[t].uid))["status"] \in InProgress

\* C25: a job killed by the timeout after it marked its record running leaves
\* the record in progress until a resubmission, and its wait wrapper sees the
\* queue job failed and raises; only a timeout that is raised inside the job
\* instead goes through the wrapper's handler, which marks the record failed.
C25_TimeoutOutcomes ==
  /\ KilledLeavesRunning
  /\ \A t \in TaskIds :
       tasks[t].res = "timeout" => tasks[t].pc \in {"handler_lock", "handler_write", "crashed"}
  /\ \A i \in Docs :
       ("error" \in DOMAIN coll[i] /\ coll[i]["error"] = "timeout"
          /\ ~ResubmittedUid(coll[i]["uid"])) => StatusOf(i) = "failed"

\* a killed job's wrapper has raised while the record still says running
C25_Witness ==
  \E t \in TaskIds :
    /\ tasks[t].pc = "killed"
    /\ tasks[t].wait = "raised"
    /\ ~ResubmittedUid(tasks[t].uid)
    /\ find_one(ByUid(tasks[t].uid))["status"] \in InProgress

\* a process has died inside a with LOCK: block
HolderCrashed ==
  \/ \E c \in Clients : clients[c].pc = "crashed"
  \/ \E t \in TaskIds : tasks[t].pc = "crashed"

\* the positions at which a worker waits for the lock
WorkerWaitingPcs == {"lookup", "mark_lock", "fail_lock", "complete_lock", "handler_lock"}

Terminal == {"completed", "failed"}

SubmitResponses == {r \in returns : r.op = "submit" /\ r.code = 200}

\* the collection holds a record with this uid and this canonical query
HoldsRecord(uid, query) ==
  \E i \in Docs : coll[i]["uid"] = uid /\ Matches(coll[i], query)

\* C31: every uid a submit call has returned (or is about to return) is the
\* uid of a record of the collection that carries the canonical query of that
\* request, in the state of the return and in every later state.
C31_ReturnedUidHasRecord ==
  /\ \A r \in SubmitResponses : HoldsRecord(r.uid, CanonicalQuery(jobType, r.q))
  /\ \A c \in Clients :
       (clients[c].pc = "return" /\ clients[c].op = "submit") =>
         HoldsRecord(clients[c].uid, CanonicalQuery(jobType, clients[c].q))


\* ------------------------------------------ a wrapper's handler (C32)
\* the handler of task t ends in this step
HandlerEnds(t) == tasks[t].pc = "handler_write" /\ tasks'[t].pc = "done"

\* C32: when a wrapper's handler ends, the record is failed with an error and
\* the queue job is finished, except for the graph wrapper, whose queue job is
\* failed; no other queue job fails, so the wait wrapper returns for every
\* failed record but raises for a failed graph build.
C32_WrapperSwallows ==
  [][\A t \in TaskIds :
       /\ HandlerEnds(t) =>
            /\ \A i \in 1..Len(coll') :
                 coll'[i]["uid"] = tasks[t].uid =>
                   coll'[i]["status"] = "failed" /\ "error" \in DOMAIN coll'[i]
            /\ tasks'[t].rq = IF tasks[t].tag = "graph" THEN "failed" ELSE "finished"
       /\ tasks'[t].rq = "failed" => tasks'[t].tag = "graph"
       /\ (tasks[t].wait = "polling" /\ tasks'[t].wait # "polling") =>
            tasks'[t].wait = IF tasks[t].tag = "graph" /\ tasks[t].rq = "failed"
                             THEN "raised" ELSE "returned"]_vars

\* the wait wrapper of a job has returned although the job's handler marked the
\* record failed with the exception it caught
C32_Witness ==
  \E t \in TaskIds, i \in Docs :
    /\ tasks[t].tag # "graph" /\ tasks[t].wait = "returned" /\ tasks[t].rq = "finished"
    /\ coll[i]["uid"] = tasks[t].uid
    /\ StatusOf(i) = "failed"
    /\ coll[i]["error"] \in {"exception", "incompatible"}
    /\ Cardinality({u \in TaskIds : tasks[u].uid = tasks[t].uid}) = 1


\* ------------------------------------------ resubmitting an unknown uid (C33)
\* C33: a resubmit_job call for a uid that no record carries ends in an error
\* and leaves the collection, the lock, the background tasks and the queue as
\* they were; only a call for the uid of a record goes on to replace_one.
C33_UnknownUidNoEffect ==
  [][/\ \A r \in returns' \ returns :
          (r.op = "resubmit_error" /\ IsNone(find_one(ByUid(r.uid)))) =>
            /\ r.code = 500
            /\ coll' = coll /\ lock' = lock /\ tasks' = tasks /\ queue' = queue
            /\ clients' = clients
     /\ \A c \in Clients :
          (clients[c].pc = "idle" /\ clients'[c].pc = "resubmit_replace") =>
            ~IsNone(find_one(ByUid(clients'[c].uid)))]_vars

\* a resubmission of an unknown uid has ended in an error for a job type that
\* can be resubmitted, while the collection holds a record and a task is waiting
C33_Witness ==
  /\ jobType \in DOMAIN KEEP_KEYS
  /\ \E r \in returns :
       r.op = "resubmit_error" /\ r.uid \notin Uids /\ IsNone(find_one(ByUid(r.uid)))
  /\ coll # <<>>
  /\ \E t \in TaskIds : tasks[t].wait = "added"


\* ------------------------------------------ incompatible networks (C34)
\* the jobs that look their (seed_type, network) pair up in QUERY_MAP
QueryMapTags == {"diamond", "domino", "kpm", "must", "robust"}

\* the pair of a record is not a key of QUERY_MAP
Incompatible(doc) ==
  /\ {"seed_type", "network"} \subseteq DOMAIN doc
  /\ <<doc["seed_type"], doc["network"]>> \notin QUERY_MAP

\* C34: a worker whose record has a pair that is not a key of QUERY_MAP leaves
\* the body without running the algorithm (no output file appears) and with
\* the exception naming the pair; its handler ends with the record failed and
\* that error; a record with such a pair never is completed or holds a result.
C34_IncompatibleFails ==
  [][SubmitTag(jobType) \in QueryMapTags =>
       /\ \A t \in TaskIds :
            /\ (tasks[t].pc = "exec" /\ tasks'[t].pc # "exec" /\ Incompatible(tasks[t].details)) =>
                 /\ tasks'[t].pc = "handler_lock"
                 /\ tasks'[t].res = "incompatible"
                 /\ files' = files
            /\ (HandlerEnds(t) /\ Incompatible(tasks[t].details)) =>
                 \A i \in 1..Len(coll') :
                   coll'[i]["uid"] = tasks[t].uid =>
                     coll'[i]["status"] = "failed" /\ coll'[i]["error"] = "incompatible"
       /\ \A i \in 1..Len(coll') :
            Incompatible(coll'[i]) =>
              /\ coll'[i]["status"] # "completed"
              /\ DOMAIN coll'[i] \cap ResultKeys = {}]_vars

\* the worker of a record with an incompatible pair is done, the record is
\* failed with the error naming the pair, and no output file was written
C34_Witness ==
  /\ SubmitTag(jobType) \in QueryMapTags
  /\ \E i \in Docs, t \in TaskIds :
       /\ Incompatible(coll[i])
       /\ tasks[t].uid = coll[i]["uid"] /\ tasks[t].pc = "done"
       /\ StatusOf(i) = "failed" /\ coll[i]["error"] = "incompatible"
       /\ coll[i]["uid"] \notin files


\* ------------------------------------------ locks of the static files (C35-C37)
\* the locks process w holds
HeldBy(w) == {key \in LockKeys : locks[key] = Job(w)}

\* the positions inside a generator function, between acquire() and release()
GeneratorPcs == {"check", "popen", "communicate"}

\* the processes whose generator subprocess for this flag is running
Generating(js, flag) ==
  {w \in Workers : js[w].pc = "communicate" /\ Flag(js[w].kind) = flag}

\* C35: no process holds two of the locks (collection lock, network-generation
\* lock, static-file lock) at once, that is, none acquires a lock while it
\* holds one.
C35_NeverNested == \A w \in Workers : Cardinality(HeldBy(w)) <= 1

\* C36: a process holds a static-file lock only inside the generator function
\* that acquired it: the lock has been released when the function is left,
\* by return or by exception.
C36_ReleasedOnExit ==
  \A w \in Workers :
    (HeldBy(w) \cap {"static-ranking-lock", "static-validation-lock"} # {}) =>
      jobs[w].pc \in GeneratorPcs

\* C37: at most one generator subprocess per flag runs at a time; a subprocess
\* starts only while the flag is not True, and a flag that is True stays True;
\* a call that finds the flag True releases the lock and returns without
\* running the generator, a call that finds it unset or False runs it.
C37_OneGenerator ==
  [][/\ \A flag \in Flags :
          /\ Cardinality(Generating(jobs', flag)) <= 1
          /\ STATUS[flag] = "True" =>
               /\ STATUS'[flag] = "True"
               /\ Generating(jobs', flag) \subseteq Generating(jobs, flag)
     /\ \A w \in Workers :
          (jobs[w].pc = "check" /\ jobs'[w].pc # "check") =>
            IF STATUS[Flag(jobs[w].kind)] = "True"
            THEN /\ jobs'[w].pc = AfterGenerate(jobs[w].kind)
                 /\ locks'[StaticLock(jobs[w].kind)] = Free
            ELSE jobs'[w].pc = "popen"]_vars

\* a failed run has set the flag False, the generator is running again, and
\* another call waits for the lock
C37_Witness ==
  \E w, v \in Workers :
    /\ jobs[w].pc = "communicate"
    /\ STATUS[Flag(jobs[w].kind)] = "False"
    /\ jobs[v].pc = "acquire" /\ jobs[v].kind = jobs[w].kind

============================================================================
